---- MODULE Spec2Model ----
(***************************************************************************)
(* VantaVault service worker (static/js/service-worker.js): the cache      *)
(* store, the install / activate lifecycle, the fetch strategy router, the *)
(* periodic cache janitor, the control-message bridge, the upload and      *)
(* settings sync queues and the notification handlers, and the pages that  *)
(* talk to it (gallery.js, app.js), as a state machine.  Every             *)
(* asynchronous suspension point of a handler (a cache or network          *)
(* operation whose promise it chains on) is a separate step, so that       *)
(* handlers interleave as they do in the worker and in the page.           *)
(***************************************************************************)
EXTENDS Integers, Sequences, FiniteSets, TLC

\* ------------------------------------------------------------------ bounds
\* Fetch events being handled at the same time.
MaxFetch == 1
\* Detached cache writes / background refreshes that may be outstanding.
MaxPending == 2
\* Clock ticks (days) the janitor specification lets pass.
MaxTicks == 1
\* Control messages a client posts in the message specification.
MaxMsgs == 2
\* Items the foreground may put in the pending-upload queue.
MaxUploads == 2
\* sync-uploads events dispatched in the sync specification.
MaxSyncs == 2
\* Setting changes the foreground may put in the pending-setting queue.
MaxSettings == 2
\* Notifications shown, and clicked, in the notification specification.
MaxClicks == 2
\* Files the user may select for upload while a page is open.
MaxFiles == 3
\* Calls of processUploadQueue while a page is open.
MaxProcess == 2
\* /pin/verify requests sent while the lock screen is open.
MaxSubmits == 2
\* Auto-submit timeouts pending at once.
MaxTimers == 2
\* Times the window is hidden.
MaxHides == 2

\* --------------------------------------------------------- cache names
CACHE_NAME    == "vantavault-v2.0"
STATIC_CACHE  == "vantavault-static-v2.0"
DYNAMIC_CACHE == "vantavault-dynamic-v2.0"
MEDIA_CACHE   == "vantavault-media-v2.0"
\* A partition left behind by an earlier deployment of the worker.
OLD_CACHE     == "vantavault-static-v1.0"

currentCaches == <<CACHE_NAME, STATIC_CACHE, DYNAMIC_CACHE, MEDIA_CACHE>>

Range(s) == {s[i] : i \in DOMAIN s}

\* ------------------------------------------------------------------ URLs
\* A pathname is the sequence of its "/" separators and segments, so that
\* String.prototype.startsWith is a prefix test.
OfflineUrl == <<"/", "offline">>
Icon192Url == <<"/", "static", "/", "icons", "/", "icon-192.svg">>

STATIC_ASSETS ==
    << <<"/">>,
       <<"/", "static", "/", "css", "/", "main.css">>,
       <<"/", "static", "/", "css", "/", "animations.css">>,
       <<"/", "static", "/", "css", "/", "gallery.css">>,
       <<"/", "static", "/", "js", "/", "app.js">>,
       <<"/", "static", "/", "js", "/", "auth.js">>,
       <<"/", "static", "/", "js", "/", "gallery.js">>,
       <<"/", "manifest.json">>,
       OfflineUrl,
       Icon192Url,
       <<"/", "static", "/", "icons", "/", "icon-512.svg">> >>

\* URLs the pages of the app request besides the install manifest.
MediaUrl    == <<"/", "api", "/", "media", "/", "1">>
SettingsUrl == <<"/", "api", "/", "settings">>
GalleryUrl  == <<"/", "gallery">>
FontUrl     == <<"/", "static", "/", "fonts", "/", "inter.woff2">>

\* s.startsWith(p)
StartsWith(s, p) == Len(p) <= Len(s) /\ SubSeq(s, 1, Len(p)) = p

\* ------------------------------------------------------------- responses
\* A response is its status, its body and its headers.  The value of a
\* `date` header is the day it names, NaN when the text does not parse.
NaN == -1

NoHeaders == <<>>

\* The value `undefined` where the code expects a response.
Undefined == [status |-> 0, body |-> [src |-> "undefined", url |-> <<>>], headers |-> NoHeaders]

\* What the server answers for `url` with `status` on day `day`.
NetworkResponse(url, status, day) ==
    [status |-> status, body |-> [src |-> "server", url |-> url],
     headers |-> ("date" :> day)]

\* The text of the offline page.
OFFLINE_HTML == [src |-> "OFFLINE_HTML", url |-> <<>>]

\* new Response(OFFLINE_HTML, {headers: {...}})
OfflinePageResponse ==
    [status |-> 200, body |-> OFFLINE_HTML,
     headers |-> ("Content-Type" :> "text/html" @@ "Cache-Control" :> "no-cache")]

\* ----------------------------------------------------------- cache storage
\* CacheStorage is the sequence of its caches in creation order (the order
\* of caches.keys() and of caches.match); a cache maps request URLs to
\* responses.  A Cache object obtained from caches.open is modelled by its
\* name: after caches.delete(name) it reads as empty, where the browser
\* would still show the holder what the deleted cache held.
NoEntries == <<>>

CacheNamesOf(cs) == [i \in DOMAIN cs |-> cs[i].name]

HasCache(cs, name) == \E i \in DOMAIN cs : cs[i].name = name

\* The entries of cache `name` (none when there is no such cache).
EntriesOf(cs, name) ==
    IF HasCache(cs, name)
    THEN (CHOOSE c \in Range(cs) : c.name = name).entries
    ELSE NoEntries

\* caches.open(name): creates the cache when it does not exist.
CachesOpen(cs, name) ==
    IF HasCache(cs, name) THEN cs
    ELSE Append(cs, [name |-> name, entries |-> NoEntries])

\* caches.delete(name)
CachesDelete(cs, name) == SelectSeq(cs, LAMBDA c : c.name # name)

\* caches.open(name).then(cache => cache.put(url, resp))
CachePut(cs, name, url, resp) ==
    LET opened == CachesOpen(cs, name)
    IN  [i \in DOMAIN opened |->
            IF opened[i].name = name
            THEN [opened[i] EXCEPT !.entries = (url :> resp) @@ @]
            ELSE opened[i]]

\* cache.delete(url) on the cache `name`
CacheDelete(cs, name, url) ==
    [i \in DOMAIN cs |->
        IF cs[i].name = name
        THEN [cs[i] EXCEPT !.entries =
                 [u \in (DOMAIN @) \ {url} |-> @[u]]]
        ELSE cs[i]]

\* caches.match(url): the first cache, in creation order, that holds the URL.
CachesMatch(cs, url) ==
    LET hits == {i \in DOMAIN cs : url \in DOMAIN cs[i].entries}
    IN  IF hits = {} THEN Undefined
        ELSE cs[CHOOSE i \in hits : \A j \in hits : i <= j].entries[url]

\* ------------------------------------------------------------------ state
VARIABLES
    lifecycle,   \* state of the worker: parsed, installing, installed, activating, activated
    caches,      \* the origin's CacheStorage
    install,     \* progress of the promises the two install listeners gave to waitUntil
    activate,    \* progress of the activate listener's promise chain
    now,         \* Date.now(), in days
    tasks,       \* fetch events being handled
    puts,        \* detached caches.open(..).then(cache => cache.put(..)) not yet performed
    refreshes,   \* un-awaited fetchAndCache calls whose fetch is outstanding
    rejections,  \* whether a promise was rejected with no handler attached
    janitor,     \* the cleanupCache call in progress
    bridge,      \* what the message listener has been asked so far
    clears,      \* clearCache calls in progress
    infos,       \* getCacheInfo calls in progress
    sending,     \* sendMessageToClient calls whose clients.matchAll() is outstanding
    outbox,      \* messages posted to clients: how many times each
    clients,     \* the window clients the worker controls
    pendingUploads,  \* the durable queue of pending uploads
    sync,        \* the syncPendingUploads call in progress
    overlap,     \* a second syncPendingUploads call, started while the first is suspended
    settings,    \* the queue of pending setting changes and the syncSettings call in progress
    notif,       \* the notification on display and the notificationclick being handled
    app,         \* a page of the app: its VantaVaultApp, its gallery binding, its storage
    lock         \* the lock screen: its PinLock, its timers, the session's storage

lifeVars  == <<lifecycle, install, activate>>
fetchVars == <<tasks, puts, refreshes, rejections>>
msgVars   == <<bridge, clears, infos>>
postVars  == <<sending, outbox, clients>>
syncVars  == <<pendingUploads, sync>>
sideVars  == <<overlap, settings, notif, app, lock>>
\* Everything the lifecycle and the fetch router leave alone.
auxVars   == <<janitor, msgVars, postVars, syncVars, sideVars>>
vars == <<lifecycle, caches, install, activate, now, tasks, puts, refreshes, rejections,
          janitor, bridge, clears, infos, sending, outbox, clients, pendingUploads, sync,
          overlap, settings, notif, app, lock>>

\* The day the worker script is evaluated.
Day0 == 40

\* --------------------------------------------------------------- lifecycle
\* CacheStorage outlives the worker: what an earlier deployment left behind.
LeftBehind ==
    { <<>>,
      << [name |-> OLD_CACHE,
          entries |-> (OfflineUrl :> NetworkResponse(OfflineUrl, 200, Day0 - 9))],
         [name |-> CACHE_NAME,
          entries |-> (FontUrl :> NetworkResponse(FontUrl, 200, Day0 - 9))],
         [name |-> MEDIA_CACHE,
          entries |-> (MediaUrl :> NetworkResponse(MediaUrl, 200, Day0 - 3))] >> }

\* No cleanupCache pass is running.  (thrown: whether a cache operation of
\* the pass threw; clock and before are bookkeeping too.)
JanitorIdle ==
    [pc |-> "idle", cache |-> "", requests |-> <<>>, threshold |-> 0,
     clock |-> <<>>, before |-> <<>>, thrown |-> FALSE]

\* No control message has been handled.  (posted counts the messages;
\* cleared: a CLEAR_CACHE was among them; pulled: a pull-to-refresh message
\* was; both are bookkeeping.)
BridgeIdle ==
    [posted |-> 0, cleared |-> FALSE, skipWaiting |-> FALSE, update |-> FALSE,
     pulled |-> FALSE]

\* No syncPendingUploads pass is running, none has run.  (got: what
\* getPendingUploads returned to the pass; order: the ids in the order
\* retryUpload was called for them; both are bookkeeping.)
SyncIdle ==
    [pc |-> "idle", uploads |-> <<>>, attempted |-> {}, failed |-> {},
     failedBefore |-> {}, passes |-> 0, enqueued |-> 0,
     got |-> <<>>, order |-> <<>>, fired |-> FALSE]

\* No second syncPendingUploads call is running.
OverlapIdle == [pc |-> "idle", uploads |-> <<>>, order |-> <<>>]

\* No setting change is queued, no syncSettings call is running.
SettingsIdle ==
    [queue |-> <<>>, pc |-> "idle", changes |-> <<>>, synced |-> {}, failed |-> {},
     enqueued |-> 0, passes |-> 0]

\* No notification is on display; `windows` are the window clients of the
\* origin, controlled or not.
NotifIdle(windows) ==
    [shown |-> FALSE, pc |-> "idle", action |-> "", windows |-> windows,
     focused |-> <<>>, opened |-> <<>>, closed |-> 0]

\* The value of localStorage.getItem for a key that is not stored, and of
\* the binding `gallery` before the page has loaded.
Null == "null"

\* No page of the app is open: the scripts have not run.  theme is
\* VantaVaultApp's, uploadQueue and isUploading are GalleryManager's;
\* binding is the top-level `let gallery`, windowGallery the property
\* `gallery` of window; stored is localStorage['vantavault_theme'] and
\* systemDark whether (prefers-color-scheme: dark) matches.  pc, i and item
\* are the position of the processUploadQueue call that is in its loop,
\* loading the calls waiting for loadGallery, timers the pending
\* setTimeout callbacks; queueList is whether the document has the element
\* #uploadQueueList, btnDisabled the disabled attribute of #uploadBtn.
\* (chosen: the user has toggled the theme; files: files selected;
\* processCalls: calls of processUploadQueue; start: the files that were in
\* the queue and not completed when the last loop began; tried: the files
\* that loop has passed to uploadFile; removed: the files the user removed;
\* ignored: processUploadQueue was called while isUploading was set; all
\* seven are bookkeeping.)
AppClosed ==
    [loaded |-> FALSE, online |-> TRUE, systemDark |-> TRUE, stored |-> Null,
     chosen |-> FALSE, theme |-> "dark", binding |-> Null, windowGallery |-> "undefined",
     uploadQueue |-> <<>>, isUploading |-> FALSE, pc |-> "idle", i |-> 0, item |-> 0,
     loading |-> 0, timers |-> 0, queueList |-> TRUE, btnDisabled |-> FALSE,
     files |-> 0, processCalls |-> 0, start |-> {}, tried |-> {}, removed |-> {},
     ignored |-> FALSE]

\* No window of the app is open: no PinLock, no timer, nothing in the
\* session's storage.  pin is this.pin; autoSubmit and clearTimers count the
\* pending 300 ms and 1000 ms timeouts; warnings holds the countdown of each
\* security warning on display; pc is where the submitPin call in progress
\* is suspended; inflight counts the /pin/verify requests not yet answered
\* and sent is the pin of the last request body.  submits, last and dropped
\* are bookkeeping: the requests sent so far, how the last call ended, and
\* which inputs a guard has turned away.  returnPath is the session's
\* 'return_path', autoLock and lockOnMinimize the two stored settings,
\* navTimer the pending 100 ms timeout of onAppHidden; unlocked says whether
\* the vault is open (bookkeeping), hides counts the times the window was
\* hidden.
LockClosed ==
    [location |-> "closed", visible |-> TRUE, returnPath |-> Null,
     autoLock |-> TRUE, lockOnMinimize |-> FALSE, navTimer |-> FALSE, unlocked |-> FALSE,
     pin |-> <<>>, isSubmitting |-> FALSE, keypadDisabled |-> FALSE,
     autoSubmit |-> 0, clearTimers |-> 0, pc |-> "idle", inflight |-> 0, sent |-> <<>>,
     failedAttempts |-> 0, warnings |-> <<>>, submits |-> 0, last |-> "none",
     dropped |-> {}, hides |-> 0]

\* No sync pass overlaps, no setting is queued, no notification, no page.
InitSide ==
    /\ overlap = OverlapIdle
    /\ settings = SettingsIdle
    /\ notif = NotifIdle({})
    /\ app = AppClosed
    /\ lock = LockClosed

\* Nothing but the lifecycle and fetch events has happened.
InitAux ==
    /\ InitSide
    /\ janitor = JanitorIdle
    /\ bridge = BridgeIdle
    /\ clears = {}
    /\ infos = {}
    /\ sending = <<>>
    /\ outbox = <<>>
    /\ clients = {1}
    /\ pendingUploads = <<>>
    /\ sync = SyncIdle

Init ==
    /\ lifecycle = "parsed"
    /\ caches \in LeftBehind
    /\ install = [addAll |-> "idle", offline |-> "idle"]
    /\ activate = [pc |-> "idle", cachesToDelete |-> {}, before |-> <<>>]
    /\ now = Day0
    /\ tasks = {}
    /\ puts = {}
    /\ refreshes = {}
    /\ rejections = FALSE
    /\ InitAux

\* The `install` event: both listeners run and hand their promise to waitUntil.
InstallEvent ==
    /\ lifecycle = "parsed"
    /\ lifecycle' = "installing"
    /\ install' = [addAll |-> "pending", offline |-> "pending"]
    /\ UNCHANGED <<caches, activate, now, fetchVars, auxVars>>

\* cache.addAll(urls) into cache `name`, every response being 200.
CacheAddAll(cs, name, urls, day) ==
    LET opened == CachesOpen(cs, name)
    IN  [i \in DOMAIN opened |->
            IF opened[i].name = name
            THEN [opened[i] EXCEPT !.entries =
                     [u \in Range(urls) |-> NetworkResponse(u, 200, day)] @@ @]
            ELSE opened[i]]

\* First listener: caches.open(STATIC_CACHE).then(cache => cache.addAll(STATIC_ASSETS))
\* resolves, then self.skipWaiting().
InstallAddAll ==
    /\ lifecycle = "installing"
    /\ install.addAll = "pending"
    /\ caches' = CacheAddAll(caches, STATIC_CACHE, STATIC_ASSETS, now)
    /\ install' = [install EXCEPT !.addAll = "cached"]
    /\ UNCHANGED <<lifecycle, activate, now, fetchVars, auxVars>>

\* First listener: one of the manifest's fetches fails, addAll rejects and
\* the .catch logs the error, so the promise given to waitUntil resolves.
InstallAddAllFails ==
    /\ lifecycle = "installing"
    /\ install.addAll = "pending"
    /\ caches' = CachesOpen(caches, STATIC_CACHE)
    /\ install' = [install EXCEPT !.addAll = "caught"]
    /\ UNCHANGED <<lifecycle, activate, now, fetchVars, auxVars>>

\* Second listener: cache.put('/offline', new Response(OFFLINE_HTML, ..)).
InstallOfflinePage ==
    /\ lifecycle = "installing"
    /\ install.offline = "pending"
    /\ caches' = CachePut(caches, STATIC_CACHE, OfflineUrl, OfflinePageResponse)
    /\ install' = [install EXCEPT !.offline = "cached"]
    /\ UNCHANGED <<lifecycle, activate, now, fetchVars, auxVars>>

\* Every promise given to waitUntil has resolved: the worker is installed.
InstallEnd ==
    /\ lifecycle = "installing"
    /\ install.addAll \in {"cached", "caught"}
    /\ install.offline = "cached"
    /\ lifecycle' = "installed"
    /\ UNCHANGED <<caches, install, activate, now, fetchVars, auxVars>>

\* The `activate` event: the listener calls caches.keys().
ActivateEvent ==
    /\ lifecycle = "installed"
    /\ lifecycle' = "activating"
    /\ activate' = [pc |-> "keys", cachesToDelete |-> {}, before |-> caches]
    /\ UNCHANGED <<caches, install, now, fetchVars, auxVars>>

\* The filter with its negation lost: the current partitions are the ones deleted.
CachesToDelete_Inverted(cacheNames) ==
    {n \in Range(cacheNames) : n \in Range(currentCaches)}

\* cacheNames.filter(cacheName => !currentCaches.includes(cacheName))
CachesToDelete(cacheNames) ==
    {n \in Range(cacheNames) : n \notin Range(currentCaches)}

\* caches.keys() resolves and the names are filtered.
ActivateKeys ==
    /\ lifecycle = "activating"
    /\ activate.pc = "keys"
    /\ activate' = [activate EXCEPT !.pc = "delete",
                                    !.cachesToDelete = CachesToDelete(CacheNamesOf(caches))]
    /\ UNCHANGED <<lifecycle, caches, install, now, fetchVars, auxVars>>

\* One caches.delete(cacheName) of the Promise.all completes.
ActivateDelete ==
    /\ lifecycle = "activating"
    /\ activate.pc = "delete"
    /\ \E n \in activate.cachesToDelete :
        /\ caches' = CachesDelete(caches, n)
        /\ activate' = [activate EXCEPT !.cachesToDelete = @ \ {n}]
    /\ UNCHANGED <<lifecycle, install, now, fetchVars, auxVars>>

\* Promise.all resolved: self.clients.claim(), the worker is active.
ActivateClaim ==
    /\ lifecycle = "activating"
    /\ activate.pc = "delete"
    /\ activate.cachesToDelete = {}
    /\ lifecycle' = "activated"
    /\ activate' = [activate EXCEPT !.pc = "claimed"]
    /\ UNCHANGED <<caches, install, now, fetchVars, auxVars>>

Lifecycle ==
    \/ InstallEvent
    \/ InstallAddAll
    \/ InstallAddAllFails
    \/ InstallOfflinePage
    \/ InstallEnd
    \/ ActivateEvent
    \/ ActivateKeys
    \/ ActivateDelete
    \/ ActivateClaim

\* ------------------------------------------------------------ fetch router
\* The requests the pages and the browser hand to the worker.
Request(scheme, path, method, mode, destination) ==
    [scheme |-> scheme, path |-> path, method |-> method, mode |-> mode,
     destination |-> destination]

Requests ==
    { Request("https", MediaUrl, "GET", "no-cors", "image"),
      Request("https", MediaUrl, "GET", "navigate", "document"),
      Request("https", SettingsUrl, "GET", "cors", ""),
      Request("https", GalleryUrl, "GET", "navigate", "document"),
      Request("https", FontUrl, "GET", "no-cors", "font"),
      Request("https", Icon192Url, "GET", "no-cors", "image"),
      Request("https", MediaUrl, "POST", "cors", ""),
      Request("chrome-extension", <<"/", "content.js">>, "GET", "no-cors", "script") }

\* Statuses the server answers with.
NetStatuses == {200, 404}

\* The fetch listener without its /api/ test: API requests fall through to
\* the navigation and static-asset handlers.
Route_NoApiTest(req) ==
    IF req.method # "GET" \/ req.scheme = "chrome-extension" THEN "none"
    ELSE IF req.mode = "navigate" THEN "handlePageRequest"
    ELSE "handleStaticRequest"

\* The fetch listener without its first test: requests that are not GET and
\* requests of browser extensions are classified like the others.
Route_NoSkipTest(req) ==
    IF StartsWith(req.path, <<"/", "api", "/">>) THEN "handleApiRequest"
    ELSE IF StartsWith(req.path, <<"/", "api", "/", "media", "/">>) THEN "handleMediaRequest"
    ELSE IF req.mode = "navigate" THEN "handlePageRequest"
    ELSE "handleStaticRequest"

\* The body of the fetch listener: the handler the event is given to, "none"
\* when the listener returns without calling respondWith.
Route(req) ==
    IF req.method # "GET" \/ req.scheme = "chrome-extension" THEN "none"
    ELSE IF StartsWith(req.path, <<"/", "api", "/">>) THEN "handleApiRequest"
    ELSE IF StartsWith(req.path, <<"/", "api", "/", "media", "/">>) THEN "handleMediaRequest"
    ELSE IF req.mode = "navigate" THEN "handlePageRequest"
    ELSE "handleStaticRequest"

\* The first asynchronous operation each handler starts.
FirstStep(handler) ==
    CASE handler = "handleApiRequest"    -> "api_fetch"
      [] handler = "handleMediaRequest"  -> "media_match"
      [] handler = "handlePageRequest"   -> "page_fetch"
      [] handler = "handleStaticRequest" -> "static_match"
      [] OTHER                           -> "ignored"

Outstanding == Cardinality(puts) + Cardinality(refreshes) + Cardinality(tasks)

\* A fetch event being handled: the request, the handler it was given to,
\* the operation the handler is suspended at, and what it has done so far
\* (cached: what caches.match(request) held when the event was dispatched).
Task(req, cs) ==
    [pc |-> FirstStep(Route(req)), req |-> req, handler |-> Route(req),
     resp |-> Undefined, via |-> "", netCalls |-> 0,
     cached |-> CachesMatch(cs, req.path)]

\* A `fetch` event is dispatched to the active worker.
FetchEvent ==
    /\ lifecycle = "activated"
    /\ Cardinality(tasks) < MaxFetch
    /\ Outstanding < MaxPending
    /\ \E req \in Requests : tasks' = tasks \cup {Task(req, caches)}
    /\ UNCHANGED <<lifeVars, caches, now, puts, refreshes, rejections, auxVars>>

\* respondWith's promise settles with `resp`, obtained `via` a branch.
Responded(t, resp, via) == [t EXCEPT !.pc = "responded", !.resp = resp, !.via = via]

\* The task after one more call of fetch().
Fetched(t) == [t EXCEPT !.netCalls = @ + 1]

\* The offline answer without its Cache-Control header and with the status
\* new Response defaults to.
ApiOfflineResponse_Defaults(day) ==
    [status |-> 200,
     body |-> [src |-> "JSON", url |-> <<>>, error |-> "You are offline",
               offline |-> TRUE, timestamp |-> day],
     headers |-> ("Content-Type" :> "application/json")]

\* new Response(JSON.stringify({error: 'You are offline', offline: true,
\*   timestamp: new Date().toISOString()}), {status: 503, headers: {..}}),
\* the body being the object the JSON text denotes.
ApiOfflineResponse(day) ==
    [status |-> 503,
     body |-> [src |-> "JSON", url |-> <<>>, error |-> "You are offline",
               offline |-> TRUE, timestamp |-> day],
     headers |-> ("Content-Type" :> "application/json" @@ "Cache-Control" :> "no-store")]

\* handleApiRequest: fetch(event.request) settles.
ApiFetch ==
    \E t \in tasks :
        /\ t.pc = "api_fetch"
        /\ \/ \E st \in NetStatuses :
                tasks' = (tasks \ {t}) \cup
                    {Responded(Fetched(t), NetworkResponse(t.req.path, st, now), "network")}
           \/ tasks' = (tasks \ {t}) \cup
                    {Responded(Fetched(t), ApiOfflineResponse(now), "synthesized")}
        /\ UNCHANGED <<lifeVars, caches, now, puts, refreshes, rejections, auxVars>>

\* A detached write: caches.open(name).then(cache => cache.put(url, resp)).
PendingPut(name, url, resp) == [cache |-> name, url |-> url, resp |-> resp]

\* handlePageRequest without its caches.open(..).then(cache => cache.put(..)).
PageWrites_None(url, resp) == {}

\* handlePageRequest: the response is cloned into DYNAMIC_CACHE whatever its status.
PageWrites(url, resp) == {PendingPut(DYNAMIC_CACHE, url, resp)}

\* handlePageRequest: fetch(event.request) settles.
PageFetch ==
    \E t \in tasks :
        /\ t.pc = "page_fetch"
        /\ \/ \E st \in NetStatuses :
                LET resp == NetworkResponse(t.req.path, st, now)
                IN  /\ tasks' = (tasks \ {t}) \cup {Responded(Fetched(t), resp, "network")}
                    /\ puts' = puts \cup PageWrites(t.req.path, resp)
           \/ /\ tasks' = (tasks \ {t}) \cup {[Fetched(t) EXCEPT !.pc = "page_match"]}
              /\ UNCHANGED puts
        /\ UNCHANGED <<lifeVars, caches, now, refreshes, rejections, auxVars>>

\* handlePageRequest, after the fetch failed: caches.match(event.request) resolves.
PageMatch ==
    \E t \in tasks :
        /\ t.pc = "page_match"
        /\ LET cachedResponse == CachesMatch(caches, t.req.path)
           IN  tasks' = (tasks \ {t}) \cup
                   {IF cachedResponse # Undefined
                    THEN Responded(t, cachedResponse, "cache")
                    ELSE [t EXCEPT !.pc = "page_offline"]}
        /\ UNCHANGED <<lifeVars, caches, now, puts, refreshes, rejections, auxVars>>

\* handlePageRequest, nothing cached for the request: caches.match('/offline') resolves.
PageOffline ==
    \E t \in tasks :
        /\ t.pc = "page_offline"
        /\ tasks' = (tasks \ {t}) \cup
               {Responded(t, CachesMatch(caches, OfflineUrl), "offline")}
        /\ UNCHANGED <<lifeVars, caches, now, puts, refreshes, rejections, auxVars>>

\* fetchAndCache: what is cloned into DYNAMIC_CACHE for a response.
FetchAndCacheWrites(url, resp) ==
    IF resp.status # 200 THEN {} ELSE {PendingPut(DYNAMIC_CACHE, url, resp)}

\* new Response('Offline', {status: 503, ..})
StaticOfflineResponse ==
    [status |-> 503, body |-> [src |-> "Offline", url |-> <<>>],
     headers |-> ("Content-Type" :> "text/plain")]

\* handleStaticRequest: caches.match(event.request) resolves; on a hit
\* fetchAndCache is started and not awaited.
StaticMatch ==
    \E t \in tasks :
        /\ t.pc = "static_match"
        /\ LET cachedResponse == CachesMatch(caches, t.req.path)
           IN  IF cachedResponse # Undefined
               THEN /\ tasks' = (tasks \ {t}) \cup {Responded(t, cachedResponse, "cache")}
                    /\ refreshes' = refreshes \cup {t.req.path}
               ELSE /\ tasks' = (tasks \ {t}) \cup {[t EXCEPT !.pc = "static_fetch"]}
                    /\ UNCHANGED refreshes
        /\ UNCHANGED <<lifeVars, caches, now, puts, rejections, auxVars>>

\* handleStaticRequest on a miss: the fetch of fetchAndCache settles.
StaticFetch ==
    \E t \in tasks :
        /\ t.pc = "static_fetch"
        /\ \/ \E st \in NetStatuses :
                LET resp == NetworkResponse(t.req.path, st, now)
                IN  /\ tasks' = (tasks \ {t}) \cup {Responded(Fetched(t), resp, "network")}
                    /\ puts' = puts \cup FetchAndCacheWrites(t.req.path, resp)
           \/ /\ tasks' = (tasks \ {t}) \cup
                    {Responded(Fetched(t), StaticOfflineResponse, "synthesized")}
              /\ UNCHANGED puts
        /\ UNCHANGED <<lifeVars, caches, now, refreshes, rejections, auxVars>>

\* The fetch of an un-awaited fetchAndCache settles; its rejection has no handler.
RefreshFetch ==
    \E url \in refreshes :
        /\ refreshes' = refreshes \ {url}
        /\ \/ /\ \E st \in NetStatuses :
                    puts' = puts \cup FetchAndCacheWrites(url, NetworkResponse(url, st, now))
              /\ UNCHANGED rejections
           \/ /\ rejections' = TRUE
              /\ UNCHANGED puts
        /\ UNCHANGED <<lifeVars, caches, now, tasks, auxVars>>

\* A detached cache write is performed.
PerformPut ==
    \E p \in puts :
        /\ caches' = CachePut(caches, p.cache, p.url, p.resp)
        /\ puts' = puts \ {p}
        /\ UNCHANGED <<lifeVars, now, tasks, refreshes, rejections, auxVars>>

\* new Response('Media unavailable offline', {status: 503, ..})
MediaOfflineResponse ==
    [status |-> 503, body |-> [src |-> "Media unavailable offline", url |-> <<>>],
     headers |-> ("Content-Type" :> "text/plain")]

\* handleMediaRequest: what is cloned into MEDIA_CACHE for a response.
MediaWrites(url, resp) ==
    IF resp.status = 200 THEN {PendingPut(MEDIA_CACHE, url, resp)} ELSE {}

\* handleMediaRequest: caches.match(event.request) resolves.  (Route gives
\* no event to this handler, so its steps are part of no specification.)
MediaMatch ==
    \E t \in tasks :
        /\ t.pc = "media_match"
        /\ LET cachedResponse == CachesMatch(caches, t.req.path)
           IN  tasks' = (tasks \ {t}) \cup
                   {IF cachedResponse # Undefined
                    THEN Responded(t, cachedResponse, "cache")
                    ELSE [t EXCEPT !.pc = "media_fetch"]}
        /\ UNCHANGED <<lifeVars, caches, now, puts, refreshes, rejections, auxVars>>

\* handleMediaRequest on a miss: fetch(event.request) settles.
MediaFetch ==
    \E t \in tasks :
        /\ t.pc = "media_fetch"
        /\ \/ \E st \in NetStatuses :
                LET resp == NetworkResponse(t.req.path, st, now)
                IN  /\ tasks' = (tasks \ {t}) \cup {Responded(Fetched(t), resp, "network")}
                    /\ puts' = puts \cup MediaWrites(t.req.path, resp)
           \/ /\ tasks' = (tasks \ {t}) \cup
                    {IF t.req.destination = "image"
                     THEN [Fetched(t) EXCEPT !.pc = "media_placeholder"]
                     ELSE Responded(Fetched(t), MediaOfflineResponse, "synthesized")}
              /\ UNCHANGED puts
        /\ UNCHANGED <<lifeVars, caches, now, refreshes, rejections, auxVars>>

\* handleMediaRequest, failed image: caches.match('/static/icons/icon-192.svg') resolves.
MediaPlaceholder ==
    \E t \in tasks :
        /\ t.pc = "media_placeholder"
        /\ tasks' = (tasks \ {t}) \cup
               {Responded(t, CachesMatch(caches, Icon192Url), "placeholder")}
        /\ UNCHANGED <<lifeVars, caches, now, puts, refreshes, rejections, auxVars>>

\* The event is over: the response went to the page, or the listener had
\* returned without respondWith.
FetchEnd ==
    \E t \in tasks :
        /\ t.pc \in {"responded", "ignored"}
        /\ tasks' = tasks \ {t}
        /\ UNCHANGED <<lifeVars, caches, now, puts, refreshes, rejections, auxVars>>

Router ==
    \/ FetchEvent
    \/ ApiFetch
    \/ PageFetch
    \/ PageMatch
    \/ PageOffline
    \/ StaticMatch
    \/ StaticFetch
    \/ RefreshFetch
    \/ PerformPut
    \/ FetchEnd

Next == Lifecycle \/ Router

Spec == Init /\ [][Next]_vars

\* ---------------------------------------------------------------- janitor
SevenDays  == 7
ThirtyDays == 30

\* cache.keys(): the request URLs of a cache, as a list.
RECURSIVE KeysOf(_)
KeysOf(entries) ==
    IF DOMAIN entries = {} THEN <<>>
    ELSE LET u == CHOOSE x \in DOMAIN entries : TRUE
         IN  <<u>> \o KeysOf([x \in (DOMAIN entries) \ {u} |-> entries[x]])

\* a < b on numbers, false when either is NaN.
LessThan(a, b) == a # NaN /\ b # NaN /\ a < b

\* The test with <= for <: an entry exactly at the threshold is deleted too.
ShouldDelete_NotStrict(response, threshold) ==
    /\ response # Undefined
    /\ "date" \in DOMAIN response.headers
    /\ response.headers["date"] # NaN /\ response.headers["date"] <= threshold

\* if (response) { dateHeader = response.headers.get('date');
\*   if (dateHeader) { if (new Date(dateHeader).getTime() < threshold) delete } }
ShouldDelete(response, threshold) ==
    /\ response # Undefined
    /\ "date" \in DOMAIN response.headers
    /\ LessThan(response.headers["date"], threshold)

\* Date.now() - (7 * 24 * 60 * 60 * 1000), Date.now() - (30 * 24 * 60 * 60 * 1000)
Threshold(cacheName, day) ==
    IF cacheName = DYNAMIC_CACHE THEN day - SevenDays ELSE day - ThirtyDays

\* A day passes.
Tick ==
    /\ now < Day0 + MaxTicks
    /\ now' = now + 1
    /\ UNCHANGED <<lifeVars, caches, fetchVars, auxVars>>

\* The `periodicsync` event: cleanupCache() is called for the tag
\* 'cleanup-cache' and for no other.
PeriodicSyncEvent ==
    /\ lifecycle = "activated"
    /\ janitor.pc \in {"idle", "done", "caught"}
    /\ \E tag \in {"cleanup-cache", "content-sync"} :
          janitor' = IF tag = "cleanup-cache"
                     THEN [JanitorIdle EXCEPT !.pc = "open", !.cache = DYNAMIC_CACHE,
                                              !.before = caches]
                     ELSE janitor
    /\ UNCHANGED <<lifeVars, caches, now, fetchVars, msgVars, postVars, syncVars, sideVars>>

\* The second loop run over the static cache instead of the media cache.
JanitorNextCache_Static(j) ==
    IF j.cache = DYNAMIC_CACHE
    THEN [j EXCEPT !.pc = "open", !.cache = STATIC_CACHE, !.requests = <<>>]
    ELSE [j EXCEPT !.pc = "done", !.requests = <<>>]

\* The loop over one cache is over: the media cache comes next, then the end.
JanitorNextCache(j) ==
    IF j.cache = DYNAMIC_CACHE
    THEN [j EXCEPT !.pc = "open", !.cache = MEDIA_CACHE, !.requests = <<>>]
    ELSE [j EXCEPT !.pc = "done", !.requests = <<>>]

\* The loop goes to its next request.
JanitorNextRequest(j) ==
    IF Len(j.requests) > 1
    THEN [j EXCEPT !.pc = "match", !.requests = Tail(@)]
    ELSE JanitorNextCache(j)

\* await caches.open(DYNAMIC_CACHE) / await caches.open(MEDIA_CACHE)
JanitorOpen ==
    /\ janitor.pc = "open"
    /\ caches' = CachesOpen(caches, janitor.cache)
    /\ janitor' = [janitor EXCEPT !.pc = "keys"]
    /\ UNCHANGED <<lifeVars, now, fetchVars, msgVars, postVars, syncVars, sideVars>>

\* await cache.keys(), then the threshold is computed from Date.now().
JanitorKeys ==
    /\ janitor.pc = "keys"
    /\ LET j == [janitor EXCEPT
                    !.requests = KeysOf(EntriesOf(caches, janitor.cache)),
                    !.threshold = Threshold(janitor.cache, now),
                    !.clock = (janitor.cache :> now) @@ @]
       IN  janitor' = IF j.requests = <<>> THEN JanitorNextCache(j)
                      ELSE [j EXCEPT !.pc = "match"]
    /\ UNCHANGED <<lifeVars, caches, now, fetchVars, msgVars, postVars, syncVars, sideVars>>

\* await cache.match(request), then the tests on the response.
JanitorMatch ==
    /\ janitor.pc = "match"
    /\ LET request == Head(janitor.requests)
           entries == EntriesOf(caches, janitor.cache)
           response == IF request \in DOMAIN entries THEN entries[request] ELSE Undefined
       IN  janitor' = IF ShouldDelete(response, janitor.threshold)
                      THEN [janitor EXCEPT !.pc = "delete"]
                      ELSE JanitorNextRequest(janitor)
    /\ UNCHANGED <<lifeVars, caches, now, fetchVars, msgVars, postVars, syncVars, sideVars>>

\* await cache.delete(request)
JanitorDelete ==
    /\ janitor.pc = "delete"
    /\ caches' = CacheDelete(caches, janitor.cache, Head(janitor.requests))
    /\ janitor' = JanitorNextRequest(janitor)
    /\ UNCHANGED <<lifeVars, now, fetchVars, msgVars, postVars, syncVars, sideVars>>

\* The catch block that starts the pass again instead of ending it.
CleanupCaught_Retry(j) ==
    [j EXCEPT !.pc = "open", !.cache = DYNAMIC_CACHE, !.requests = <<>>, !.thrown = TRUE]

\* } catch (error) { console.error(...) }: the error is logged and the
\* function returns, so its promise resolves.
CleanupCaught(j) ==
    [j EXCEPT !.pc = "caught", !.requests = <<>>, !.thrown = TRUE]

\* The cache operation the pass is waiting for (caches.open, cache.keys,
\* cache.match or cache.delete) rejects: control goes to the catch block.
JanitorFails ==
    /\ janitor.pc \in {"open", "keys", "match", "delete"}
    /\ janitor' = CleanupCaught(janitor)
    /\ UNCHANGED <<lifeVars, caches, now, fetchVars, msgVars, postVars, syncVars, sideVars>>

Janitor ==
    \/ PeriodicSyncEvent
    \/ JanitorOpen
    \/ JanitorKeys
    \/ JanitorMatch
    \/ JanitorDelete
    \/ JanitorFails

\* A response the server sent without a date header.
Undated(url) == [NetworkResponse(url, 200, 0) EXCEPT !.headers = NoHeaders]

\* What a cache may hold for `url`: nothing, a response dated one of
\* `ages` days before Day0, one whose date does not parse, one with no date.
EntryChoices(url, ages) ==
    {NoEntries}
      \cup {(url :> NetworkResponse(url, 200, Day0 - a)) : a \in ages}
      \cup {(url :> NetworkResponse(url, 200, NaN)), (url :> Undated(url))}

\* What install leaves in STATIC_CACHE, `age` days before Day0.
InstalledCache(age) ==
    CachePut(CacheAddAll(<<>>, STATIC_CACHE, STATIC_ASSETS, Day0 - age),
             STATIC_CACHE, OfflineUrl, OfflinePageResponse)

\* The legacy partition CACHE_NAME, as an earlier version of the worker
\* filled it `age` days before Day0; activation keeps it (it is in
\* currentCaches).
LegacyCache(age) ==
    <<[name |-> CACHE_NAME,
       entries |-> (GalleryUrl :> NetworkResponse(GalleryUrl, 200, Day0 - age))]>>

\* An active worker whose caches were filled by requests of the past weeks.
InitJanitor ==
    /\ lifecycle = "activated"
    /\ install = [addAll |-> "cached", offline |-> "cached"]
    /\ activate = [pc |-> "claimed", cachesToDelete |-> {}, before |-> <<>>]
    /\ now = Day0
    /\ tasks = {} /\ puts = {} /\ refreshes = {} /\ rejections = FALSE
    /\ InitAux
    /\ \E pages \in EntryChoices(GalleryUrl, {SevenDays - 1, SevenDays, SevenDays + 1}),
          fonts \in EntryChoices(FontUrl, {SevenDays - 1, SevenDays}),
          media \in EntryChoices(MediaUrl, {ThirtyDays, ThirtyDays + 1}) :
          caches = LegacyCache(ThirtyDays + 5)
                     \o InstalledCache(ThirtyDays + 5)
                     \o (IF pages @@ fonts = NoEntries THEN <<>>
                         ELSE <<[name |-> DYNAMIC_CACHE, entries |-> pages @@ fonts]>>)
                     \o (IF media = NoEntries THEN <<>>
                         ELSE <<[name |-> MEDIA_CACHE, entries |-> media]>>)

SpecJanitor == InitJanitor /\ [][Janitor \/ Tick]_vars

\* An active worker, installed eight days ago, whose dynamic partition
\* holds the page /gallery as it was answered that day.
InitCleanupServing ==
    /\ lifecycle = "activated"
    /\ install = [addAll |-> "cached", offline |-> "cached"]
    /\ activate = [pc |-> "claimed", cachesToDelete |-> {}, before |-> <<>>]
    /\ now = Day0
    /\ tasks = {} /\ puts = {} /\ refreshes = {} /\ rejections = FALSE
    /\ InitAux
    /\ caches = InstalledCache(SevenDays + 1)
                  \o <<[name |-> DYNAMIC_CACHE,
                        entries |-> (GalleryUrl :>
                            NetworkResponse(GalleryUrl, 200, Day0 - (SevenDays + 1)))]>>

\* cleanupCache passes while the fetch listener serves requests.
SpecCleanupServing == InitCleanupServing /\ [][Janitor \/ Router]_vars

\* --------------------------------------------------------- control messages
\* A message for the clients.  afterClear is bookkeeping, not part of the
\* message: whether the request it answers followed a CLEAR_CACHE request.
Message(type, data, afterClear) ==
    [type |-> type, data |-> data, afterClear |-> afterClear]

\* sendMessageToClient(message): clients.matchAll() is called.
SendMessageToClient(queue, message) == Append(queue, message)

\* One more copy of `delivery` in the bag `box`.
Posted(box, delivery) ==
    IF delivery \in DOMAIN box THEN [box EXCEPT ![delivery] = @ + 1]
    ELSE (delivery :> 1) @@ box

\* clients[0].postMessage(message) for the forEach: one client is told.
PostedToAll_FirstOnly(box, tos, message) ==
    IF tos = {} THEN box
    ELSE Posted(box, [to |-> CHOOSE c \in tos : TRUE, msg |-> message])

RECURSIVE PostedToAll(_, _, _)
PostedToAll(box, tos, message) ==
    IF tos = {} THEN box
    ELSE LET c == CHOOSE c \in tos : TRUE
         IN  PostedToAll(Posted(box, [to |-> c, msg |-> message]), tos \ {c}, message)

\* clients.matchAll() resolves: clients.forEach(client => client.postMessage(message))
PostToClients ==
    /\ sending # <<>>
    /\ outbox' = PostedToAll(outbox, clients, Head(sending))
    /\ sending' = Tail(sending)
    /\ UNCHANGED <<lifeVars, caches, now, fetchVars, janitor, msgVars, clients, syncVars, sideVars>>

\* navigator.serviceWorker.controller.postMessage({ type: 'CHECK_UPDATES' }):
\* the type of the message triggerPullToRefresh posts.
PullToRefreshMessage == "CHECK_UPDATES"

\* The types of message the pages post, that of a pull-to-refresh among them.
MessageTypes ==
    {"SKIP_WAITING", "CLEAR_CACHE", "GET_CACHE_INFO", "CHECK_FOR_UPDATES",
     PullToRefreshMessage}

\* A getCacheInfo() call suspended at its first await.
InfoCall(id, afterClear) ==
    [id |-> id, pc |-> "keys", cacheNames |-> <<>>, info |-> <<>>, count |-> 0,
     requests |-> <<>>, totalSize |-> 0, afterClear |-> afterClear]

\* The `message` event: the switch on event.data.type.
MessageEvent ==
    /\ lifecycle = "activated"
    /\ bridge.posted < MaxMsgs
    /\ \E type \in MessageTypes :
        LET id == bridge.posted + 1
            b  == [bridge EXCEPT !.posted = id,
                                 !.pulled = @ \/ type = PullToRefreshMessage]
        IN  /\ bridge' = CASE type = "SKIP_WAITING"      -> [b EXCEPT !.skipWaiting = TRUE]
                           [] type = "CLEAR_CACHE"       -> [b EXCEPT !.cleared = TRUE]
                           [] type = "CHECK_FOR_UPDATES" -> [b EXCEPT !.update = TRUE]
                           [] OTHER                      -> b
            /\ clears' = IF type = "CLEAR_CACHE"
                         THEN clears \cup {[id |-> id, pc |-> "keys", cacheNames |-> {}]}
                         ELSE clears
            /\ infos' = IF type = "GET_CACHE_INFO"
                        THEN infos \cup {InfoCall(id, bridge.cleared)}
                        ELSE infos
    /\ UNCHANGED <<lifeVars, caches, now, fetchVars, janitor, postVars, syncVars, sideVars>>

\* clearCache: await caches.keys()
ClearKeys ==
    \E c \in clears :
        /\ c.pc = "keys"
        /\ clears' = (clears \ {c}) \cup
               {[c EXCEPT !.pc = "delete", !.cacheNames = Range(CacheNamesOf(caches))]}
        /\ UNCHANGED <<lifeVars, caches, now, fetchVars, janitor, bridge, infos, postVars, syncVars, sideVars>>

\* clearCache: one caches.delete(cacheName) of the Promise.all completes.
ClearDelete ==
    \E c \in clears :
        /\ c.pc = "delete"
        /\ \E n \in c.cacheNames :
            /\ caches' = CachesDelete(caches, n)
            /\ clears' = (clears \ {c}) \cup {[c EXCEPT !.cacheNames = @ \ {n}]}
        /\ UNCHANGED <<lifeVars, now, fetchVars, janitor, bridge, infos, postVars, syncVars, sideVars>>

\* clearCache: Promise.all resolved, the call returns.
ClearEnd ==
    \E c \in clears :
        /\ c.pc = "delete"
        /\ c.cacheNames = {}
        /\ clears' = clears \ {c}
        /\ UNCHANGED <<lifeVars, caches, now, fetchVars, janitor, bridge, infos, postVars, syncVars, sideVars>>

\* (await response.blob()).size, a body being measured in units, not bytes.
BlobSize(response) == Len(response.body.url) + 1

\* getCacheInfo: the loop goes to the next cache name, or returns.
InfoNextCache(g) ==
    LET done == [g EXCEPT !.info = (Head(g.cacheNames) :>
                                      [count |-> g.count, size |-> g.totalSize]) @@ @,
                          !.cacheNames = Tail(@), !.requests = <<>>]
    IN  [done EXCEPT !.pc = IF done.cacheNames = <<>> THEN "return" ELSE "open"]

\* getCacheInfo: await caches.keys()
InfoKeys ==
    \E g \in infos :
        /\ g.pc = "keys"
        /\ LET names == CacheNamesOf(caches)
           IN  infos' = (infos \ {g}) \cup
                   {[g EXCEPT !.cacheNames = names,
                              !.pc = IF names = <<>> THEN "return" ELSE "open"]}
        /\ UNCHANGED <<lifeVars, caches, now, fetchVars, janitor, bridge, clears, postVars, syncVars, sideVars>>

\* getCacheInfo: await caches.open(cacheName)
InfoOpen ==
    \E g \in infos :
        /\ g.pc = "open"
        /\ caches' = CachesOpen(caches, Head(g.cacheNames))
        /\ infos' = (infos \ {g}) \cup {[g EXCEPT !.pc = "count"]}
        /\ UNCHANGED <<lifeVars, now, fetchVars, janitor, bridge, clears, postVars, syncVars, sideVars>>

\* getCacheInfo: await cache.keys(); count is requests.length, and
\* calculateCacheSize(cache) is called.
InfoCount ==
    \E g \in infos :
        /\ g.pc = "count"
        /\ infos' = (infos \ {g}) \cup
               {[g EXCEPT !.count = Len(KeysOf(EntriesOf(caches, Head(g.cacheNames)))),
                          !.pc = "size_keys"]}
        /\ UNCHANGED <<lifeVars, caches, now, fetchVars, janitor, bridge, clears, postVars, syncVars, sideVars>>

\* calculateCacheSize: await cache.keys()
InfoSizeKeys ==
    \E g \in infos :
        /\ g.pc = "size_keys"
        /\ LET h == [g EXCEPT !.requests = KeysOf(EntriesOf(caches, Head(g.cacheNames))),
                              !.totalSize = 0]
           IN  infos' = (infos \ {g}) \cup
                   {IF h.requests = <<>> THEN InfoNextCache(h)
                    ELSE [h EXCEPT !.pc = "size_match"]}
        /\ UNCHANGED <<lifeVars, caches, now, fetchVars, janitor, bridge, clears, postVars, syncVars, sideVars>>

\* calculateCacheSize: await cache.match(request), await response.blob()
InfoSizeMatch ==
    \E g \in infos :
        /\ g.pc = "size_match"
        /\ LET entries == EntriesOf(caches, Head(g.cacheNames))
               request == Head(g.requests)
               h == [g EXCEPT !.requests = Tail(@),
                              !.totalSize = IF request \in DOMAIN entries
                                            THEN @ + BlobSize(entries[request]) ELSE @]
           IN  infos' = (infos \ {g}) \cup
                   {IF h.requests = <<>> THEN InfoNextCache(h) ELSE h}
        /\ UNCHANGED <<lifeVars, caches, now, fetchVars, janitor, bridge, clears, postVars, syncVars, sideVars>>

\* getCacheInfo returned: sendMessageToClient({type: 'CACHE_INFO', data: info})
InfoReturn ==
    \E g \in infos :
        /\ g.pc = "return"
        /\ infos' = infos \ {g}
        /\ sending' = SendMessageToClient(sending, Message("CACHE_INFO", g.info, g.afterClear))
        /\ UNCHANGED <<lifeVars, caches, now, fetchVars, janitor, bridge, clears, outbox, clients, syncVars, sideVars>>

Bridge ==
    \/ MessageEvent
    \/ ClearKeys
    \/ ClearDelete
    \/ ClearEnd
    \/ InfoKeys
    \/ InfoOpen
    \/ InfoCount
    \/ InfoSizeKeys
    \/ InfoSizeMatch
    \/ InfoReturn
    \/ PostToClients

\* An active worker with pages cached, controlling none, one or two windows.
InitBridge ==
    /\ lifecycle = "activated"
    /\ install = [addAll |-> "cached", offline |-> "cached"]
    /\ activate = [pc |-> "claimed", cachesToDelete |-> {}, before |-> <<>>]
    /\ now = Day0
    /\ tasks = {} /\ puts = {} /\ refreshes = {} /\ rejections = FALSE
    /\ janitor = JanitorIdle
    /\ bridge = BridgeIdle
    /\ clears = {} /\ infos = {}
    /\ sending = <<>> /\ outbox = <<>>
    /\ clients \in {{}, {1}, {1, 2}}
    /\ pendingUploads = <<>> /\ sync = SyncIdle
    /\ InitSide
    /\ caches \in
         { InstalledCache(1),
           InstalledCache(1) \o
             <<[name |-> DYNAMIC_CACHE,
                entries |-> (GalleryUrl :> NetworkResponse(GalleryUrl, 200, Day0))]>> }

SpecBridge == InitBridge /\ [][Bridge]_vars

\* The fetch listener of a worker activated a day after its install.
SpecServing == InitBridge /\ [][Router]_vars

\* ------------------------------------------------------------ upload sync
\* The source's getPendingUploads, retryUpload and removePendingUpload are
\* placeholders for an IndexedDB store that is not written yet (the first
\* returns [], the others resolve).  The store is modelled as the
\* specification describes it: a durable list of pending uploads keyed by
\* id, from which a replayed upload is removed, and a replay that may fail.

\* getPendingUploads(): the pending uploads, oldest first.
GetPendingUploads(queue) == queue

\* removePendingUpload(id)
RemovePendingUpload(queue, id) == SelectSeq(queue, LAMBDA u : u.id # id)

\* The foreground queues an upload it could not send.
EnqueueUpload ==
    /\ sync.enqueued < MaxUploads
    /\ pendingUploads' = Append(pendingUploads, [id |-> sync.enqueued + 1])
    /\ sync' = [sync EXCEPT !.enqueued = @ + 1]
    /\ UNCHANGED <<lifeVars, caches, now, fetchVars, janitor, msgVars, postVars, sideVars>>

\* registration.sync.register('upload-sync'): the tag the foreground
\* registers in setupServiceWorker.
RegisteredSyncTag == "upload-sync"

\* The `sync` event: syncPendingUploads() is called for the tag
\* 'sync-uploads'.  The browser fires one sync event of a tag at a time.
\* (fired: a sync event of the registered tag was delivered.)
SyncEvent ==
    /\ lifecycle = "activated"
    /\ sync.pc \in {"idle", "done"}
    /\ sync.passes < MaxSyncs
    /\ \E tag \in {"sync-uploads", RegisteredSyncTag} :
          LET y == [sync EXCEPT !.fired = @ \/ tag = RegisteredSyncTag]
          IN  sync' = IF tag = "sync-uploads"
                      THEN [y EXCEPT !.pc = "get", !.uploads = <<>>, !.attempted = {},
                                     !.failed = {}, !.failedBefore = sync.failed,
                                     !.passes = @ + 1, !.got = <<>>, !.order = <<>>]
                      ELSE y
    /\ UNCHANGED <<lifeVars, caches, now, fetchVars, janitor, msgVars, postVars, pendingUploads, sideVars>>

\* The loop with a return at the end of its body: it ends after one upload.
SyncNextUpload_Return(y) == [y EXCEPT !.pc = "done", !.uploads = <<>>]

\* The loop of syncPendingUploads goes to its next upload, or ends.
SyncNextUpload(y) ==
    IF Len(y.uploads) > 1
    THEN [y EXCEPT !.pc = "retry", !.uploads = Tail(@)]
    ELSE [y EXCEPT !.pc = "done", !.uploads = <<>>]

\* await getPendingUploads()
SyncGet ==
    /\ sync.pc = "get"
    /\ LET uploads == GetPendingUploads(pendingUploads)
       IN  sync' = [sync EXCEPT !.uploads = uploads, !.got = uploads,
                                !.pc = IF uploads = <<>> THEN "done" ELSE "retry"]
    /\ UNCHANGED <<lifeVars, caches, now, fetchVars, janitor, msgVars, postVars, pendingUploads, sideVars>>

\* The try block with no catch around retryUpload: removePendingUpload is
\* reached whether the replay failed or not.
AfterRetry_NoCatch(ok) == "remove"

\* try { await retryUpload(upload); await removePendingUpload(upload.id); .. }
\* catch (error) { .. }: where control goes when retryUpload has settled.
AfterRetry(ok) == IF ok THEN "remove" ELSE "catch"

\* await retryUpload(upload) settles; in the catch block the clients are
\* told of the failure.
SyncRetry ==
    /\ sync.pc = "retry"
    /\ \E ok \in BOOLEAN :
        LET upload == Head(sync.uploads)
            y == [sync EXCEPT !.attempted = @ \cup {upload.id},
                              !.order = Append(@, upload.id),
                              !.failed = IF ok THEN @ ELSE @ \cup {upload.id}]
        IN  IF AfterRetry(ok) = "remove"
            THEN /\ sync' = [y EXCEPT !.pc = "remove"]
                 /\ UNCHANGED sending
            ELSE /\ sync' = SyncNextUpload(y)
                 /\ sending' = SendMessageToClient(sending,
                        Message("UPLOAD_SYNC_FAILED",
                                [id |-> upload.id, error |-> "upload failed"], FALSE))
    /\ UNCHANGED <<lifeVars, caches, now, fetchVars, janitor, msgVars, outbox, clients, pendingUploads, sideVars>>

\* await removePendingUpload(upload.id) settles; the clients are told of the
\* success, or of the failure in the catch block.
SyncRemove ==
    /\ sync.pc = "remove"
    /\ LET upload == Head(sync.uploads)
       IN  \/ /\ pendingUploads' = RemovePendingUpload(pendingUploads, upload.id)
              /\ sync' = SyncNextUpload(sync)
              /\ sending' = SendMessageToClient(sending,
                     Message("UPLOAD_SYNC_SUCCESS", [id |-> upload.id], FALSE))
           \/ /\ UNCHANGED pendingUploads
              /\ sync' = SyncNextUpload([sync EXCEPT !.failed = @ \cup {upload.id}])
              /\ sending' = SendMessageToClient(sending,
                     Message("UPLOAD_SYNC_FAILED",
                             [id |-> upload.id, error |-> "remove failed"], FALSE))
    /\ UNCHANGED <<lifeVars, caches, now, fetchVars, janitor, msgVars, outbox, clients, sideVars>>

Sync ==
    \/ EnqueueUpload
    \/ SyncEvent
    \/ SyncGet
    \/ SyncRetry
    \/ SyncRemove
    \/ PostToClients

\* An active worker controlling none, one or two windows; nothing queued.
InitSync ==
    /\ lifecycle = "activated"
    /\ install = [addAll |-> "cached", offline |-> "cached"]
    /\ activate = [pc |-> "claimed", cachesToDelete |-> {}, before |-> <<>>]
    /\ now = Day0
    /\ caches = InstalledCache(1)
    /\ tasks = {} /\ puts = {} /\ refreshes = {} /\ rejections = FALSE
    /\ janitor = JanitorIdle
    /\ bridge = BridgeIdle
    /\ clears = {} /\ infos = {}
    /\ sending = <<>> /\ outbox = <<>>
    /\ clients \in {{}, {1}, {1, 2}}
    /\ pendingUploads = <<>> /\ sync = SyncIdle
    /\ InitSide

SpecSync == InitSync /\ [][Sync]_vars

\* ------------------------------------------------- overlapping upload sync
\* The sync listener takes no lock: a second 'sync-uploads' event delivered
\* while a syncPendingUploads call is suspended at an await starts a second
\* call, which runs the same code on the same queue.
OverlapEvent ==
    /\ lifecycle = "activated"
    /\ sync.pc \in {"get", "retry", "remove"}
    /\ overlap.pc = "idle"
    /\ overlap' = [overlap EXCEPT !.pc = "get"]
    /\ UNCHANGED <<lifeVars, caches, now, fetchVars, janitor, msgVars, postVars, syncVars,
                   settings, notif, app, lock>>

\* await getPendingUploads(), in the second call
OverlapGet ==
    /\ overlap.pc = "get"
    /\ LET uploads == GetPendingUploads(pendingUploads)
       IN  overlap' = [overlap EXCEPT !.uploads = uploads,
                                      !.pc = IF uploads = <<>> THEN "done" ELSE "retry"]
    /\ UNCHANGED <<lifeVars, caches, now, fetchVars, janitor, msgVars, postVars, syncVars,
                   settings, notif, app, lock>>

\* await retryUpload(upload) settles, in the second call
OverlapRetry ==
    /\ overlap.pc = "retry"
    /\ \E ok \in BOOLEAN :
        LET upload == Head(overlap.uploads)
            y == [overlap EXCEPT !.order = Append(@, upload.id)]
        IN  IF AfterRetry(ok) = "remove"
            THEN /\ overlap' = [y EXCEPT !.pc = "remove"]
                 /\ UNCHANGED sending
            ELSE /\ overlap' = SyncNextUpload(y)
                 /\ sending' = SendMessageToClient(sending,
                        Message("UPLOAD_SYNC_FAILED",
                                [id |-> upload.id, error |-> "upload failed"], FALSE))
    /\ UNCHANGED <<lifeVars, caches, now, fetchVars, janitor, msgVars, outbox, clients,
                   syncVars, settings, notif, app, lock>>

\* await removePendingUpload(upload.id) settles, in the second call
OverlapRemove ==
    /\ overlap.pc = "remove"
    /\ LET upload == Head(overlap.uploads)
       IN  \/ /\ pendingUploads' = RemovePendingUpload(pendingUploads, upload.id)
              /\ sending' = SendMessageToClient(sending,
                     Message("UPLOAD_SYNC_SUCCESS", [id |-> upload.id], FALSE))
           \/ /\ UNCHANGED pendingUploads
              /\ sending' = SendMessageToClient(sending,
                     Message("UPLOAD_SYNC_FAILED",
                             [id |-> upload.id, error |-> "remove failed"], FALSE))
    /\ overlap' = SyncNextUpload(overlap)
    /\ UNCHANGED <<lifeVars, caches, now, fetchVars, janitor, msgVars, outbox, clients,
                   sync, settings, notif, app, lock>>

Overlap ==
    \/ OverlapEvent
    \/ OverlapGet
    \/ OverlapRetry
    \/ OverlapRemove

\* sync-uploads passes, a second one started while the first is suspended.
SpecOverlap == InitSync /\ [][Sync \/ Overlap]_vars

\* ------------------------------------------------------------ settings sync
\* getOfflineSettings, syncSettingChange and removeOfflineSetting are
\* placeholders in the source, as the upload helpers are; the store is
\* modelled as the specification describes it, a durable list of pending
\* setting changes keyed by id.  syncSettings itself is the source's.

\* The foreground queues a setting change made while offline.
EnqueueSetting ==
    /\ settings.enqueued < MaxSettings
    /\ settings' = [settings EXCEPT !.queue = Append(@, [id |-> settings.enqueued + 1]),
                                    !.enqueued = @ + 1]
    /\ UNCHANGED <<lifeVars, caches, now, fetchVars, janitor, msgVars, postVars, syncVars,
                   overlap, notif, app, lock>>

\* The `sync` event with the tag 'sync-settings': syncSettings() is called.
SettingsSyncEvent ==
    /\ lifecycle = "activated"
    /\ settings.pc \in {"idle", "done"}
    /\ settings.passes < MaxSyncs
    /\ settings' = [settings EXCEPT !.pc = "get", !.changes = <<>>, !.synced = {},
                                    !.failed = {}, !.passes = @ + 1]
    /\ UNCHANGED <<lifeVars, caches, now, fetchVars, janitor, msgVars, postVars, syncVars,
                   overlap, notif, app, lock>>

\* The loop of syncSettings goes to its next change, or ends.
SettingsNextChange(g) ==
    IF Len(g.changes) > 1
    THEN [g EXCEPT !.pc = "sync", !.changes = Tail(@)]
    ELSE [g EXCEPT !.pc = "done", !.changes = <<>>]

\* await getOfflineSettings()
SettingsGet ==
    /\ settings.pc = "get"
    /\ settings' = [settings EXCEPT !.changes = settings.queue,
                                    !.pc = IF settings.queue = <<>> THEN "done" ELSE "sync"]
    /\ UNCHANGED <<lifeVars, caches, now, fetchVars, janitor, msgVars, postVars, syncVars,
                   overlap, notif, app, lock>>

\* await syncSettingChange(change) settles; the catch block only logs.
SettingsSyncChange ==
    /\ settings.pc = "sync"
    /\ \E ok \in BOOLEAN :
          settings' = IF ok THEN [settings EXCEPT !.pc = "remove"]
                      ELSE SettingsNextChange(
                               [settings EXCEPT !.failed = @ \cup {Head(settings.changes).id}])
    /\ UNCHANGED <<lifeVars, caches, now, fetchVars, janitor, msgVars, postVars, syncVars,
                   overlap, notif, app, lock>>

\* await removeOfflineSetting(change.id) settles; the success is logged.
SettingsRemove ==
    /\ settings.pc = "remove"
    /\ LET id == Head(settings.changes).id
       IN  \/ settings' = SettingsNextChange(
                   [settings EXCEPT !.queue = SelectSeq(@, LAMBDA c : c.id # id),
                                    !.synced = @ \cup {id}])
           \/ settings' = SettingsNextChange([settings EXCEPT !.failed = @ \cup {id}])
    /\ UNCHANGED <<lifeVars, caches, now, fetchVars, janitor, msgVars, postVars, syncVars,
                   overlap, notif, app, lock>>

SettingsSync ==
    \/ EnqueueSetting
    \/ SettingsSyncEvent
    \/ SettingsGet
    \/ SettingsSyncChange
    \/ SettingsRemove

\* sync-settings passes of an active worker controlling none, one or two
\* windows.
SpecSettings == InitSync /\ [][SettingsSync]_vars

\* ----------------------------------------------------------- notifications
\* The `push` event: showNotification with the actions 'open' and 'dismiss'.
PushEvent ==
    /\ lifecycle = "activated"
    /\ ~notif.shown
    /\ notif.closed < MaxClicks
    /\ notif' = [notif EXCEPT !.shown = TRUE]
    /\ UNCHANGED <<lifeVars, caches, now, fetchVars, janitor, msgVars, postVars, syncVars,
                   overlap, settings, app, lock>>

\* The test that sends every click to the windows, whatever its action.
FocusesOrOpens_Always(action) == TRUE

\* if (event.action === 'open' || event.action === '')
FocusesOrOpens(action) == action \in {"open", ""}

\* The `notificationclick` event, up to clients.matchAll():
\* event.notification.close(), then the test on event.action.  The user
\* clicked the body of the notification (action ''), or one of its buttons.
NotificationClick ==
    /\ notif.shown
    /\ notif.pc = "idle"
    /\ \E action \in {"", "open", "dismiss"} :
          notif' = [notif EXCEPT !.shown = FALSE, !.closed = @ + 1, !.action = action,
                                 !.pc = IF FocusesOrOpens(action) THEN "matchAll" ELSE "idle"]
    /\ UNCHANGED <<lifeVars, caches, now, fetchVars, janitor, msgVars, postVars, syncVars,
                   overlap, settings, app, lock>>

\* clients.matchAll({type: 'window', includeUncontrolled: true}) resolves:
\* the first window of the list is focused (the URL of every window of the
\* origin contains '/', and every WindowClient has focus); with an empty
\* list, clients.openWindow('/') opens one.  The order of the list is the
\* browser's.
NotificationMatchAll ==
    /\ notif.pc = "matchAll"
    /\ IF notif.windows # {}
       THEN \E first \in notif.windows :
               notif' = [notif EXCEPT !.pc = "idle", !.focused = Append(@, first)]
       ELSE notif' = [notif EXCEPT !.pc = "idle", !.opened = Append(@, <<"/">>),
                                   !.windows = {1}]
    /\ UNCHANGED <<lifeVars, caches, now, fetchVars, janitor, msgVars, postVars, syncVars,
                   overlap, settings, app, lock>>

\* The user closes a window of the app.
WindowClosed ==
    /\ \E w \in notif.windows :
          /\ notif' = [notif EXCEPT !.windows = @ \ {w}]
          /\ clients' = clients \ {w}
    /\ UNCHANGED <<lifeVars, caches, now, fetchVars, janitor, msgVars, sending, outbox,
                   syncVars, overlap, settings, app, lock>>

Notify ==
    \/ PushEvent
    \/ NotificationClick
    \/ NotificationMatchAll
    \/ WindowClosed

\* An active worker; none, one or two windows of the app are open, and the
\* worker controls some of them.
InitNotify ==
    /\ lifecycle = "activated"
    /\ install = [addAll |-> "cached", offline |-> "cached"]
    /\ activate = [pc |-> "claimed", cachesToDelete |-> {}, before |-> <<>>]
    /\ now = Day0
    /\ caches = InstalledCache(0)
    /\ tasks = {} /\ puts = {} /\ refreshes = {} /\ rejections = FALSE
    /\ janitor = JanitorIdle
    /\ bridge = BridgeIdle
    /\ clears = {} /\ infos = {}
    /\ sending = <<>> /\ outbox = <<>>
    /\ pendingUploads = <<>> /\ sync = SyncIdle
    /\ overlap = OverlapIdle /\ settings = SettingsIdle /\ app = AppClosed
    /\ lock = LockClosed
    /\ \E windows \in SUBSET {1, 2} :
          /\ notif = NotifIdle(windows)
          /\ clients \in SUBSET windows

SpecNotify == InitNotify /\ [][Notify]_vars

\* ------------------------------------------------------------ foreground
\* The pages of the app (app.js, gallery.js), as far as the worker and the
\* connectivity and theme handling are concerned.
workerVars == <<lifeVars, caches, now, fetchVars, janitor, msgVars, postVars, syncVars,
                overlap, settings, notif>>

\* applyTheme(): the theme is put on the document and stored.
ApplyTheme(a) == [a EXCEPT !.stored = a.theme]

\* setupTheme(), up to the listener: the saved theme, or else the system
\* preference, becomes the theme and is applied.
SetupTheme(a) ==
    ApplyTheme([a EXCEPT !.theme = IF a.stored # Null THEN a.stored
                                   ELSE IF a.systemDark THEN "dark" ELSE "light"])

\* DOMContentLoaded: gallery.js assigns a GalleryManager to its top-level
\* `let gallery`, which is no property of window; app.js constructs the
\* VantaVaultApp, whose init() runs setupTheme and installs the listeners.
PageLoad ==
    /\ ~app.loaded
    /\ \E queueList \in BOOLEAN :
          app' = SetupTheme([app EXCEPT !.loaded = TRUE, !.binding = "GalleryManager",
                                       !.uploadQueue = <<>>, !.isUploading = FALSE,
                                       !.theme = "dark", !.queueList = queueList])
    /\ UNCHANGED <<workerVars, lock>>

\* The page is closed or reloaded: localStorage survives, the objects do not.
PageClose ==
    /\ app.loaded
    /\ app' = [AppClosed EXCEPT !.online = app.online, !.systemDark = app.systemDark,
                                !.stored = app.stored, !.chosen = app.chosen]
    /\ UNCHANGED <<workerVars, lock>>

\* The `change` listener of the (prefers-color-scheme: dark) media query.
SchemeChanged(a, matches) ==
    IF a.stored = Null
    THEN ApplyTheme([a EXCEPT !.theme = IF matches THEN "dark" ELSE "light"])
    ELSE a

\* The system colour scheme changes; an open page gets the `change` event.
ColorSchemeChange ==
    /\ LET a == [app EXCEPT !.systemDark = ~app.systemDark]
       IN  app' = IF app.loaded THEN SchemeChanged(a, a.systemDark) ELSE a
    /\ UNCHANGED <<workerVars, lock>>

\* toggleTheme(): Ctrl/Cmd + T, or the theme button.
ToggleTheme ==
    /\ app.loaded
    /\ app' = ApplyTheme([app EXCEPT !.theme = IF app.theme = "dark" THEN "light" ELSE "dark",
                                     !.chosen = TRUE])
    /\ UNCHANGED <<workerVars, lock>>

\* updateUploadQueueUI(): nothing without #uploadQueueList; else the list
\* is rendered anew (a remove button per item, disabled for an item that is
\* 'uploading') and uploadBtn.disabled is set.
UpdateUploadQueueUI(a) ==
    IF a.queueList
    THEN [a EXCEPT !.btnDisabled = (Len(a.uploadQueue) = 0 \/ a.isUploading)]
    ELSE a

\* handleFileSelection: a valid file is pushed on the upload queue.
HandleFileSelection ==
    /\ app.loaded
    /\ app.files < MaxFiles
    /\ app' = UpdateUploadQueueUI(
                 [app EXCEPT !.files = @ + 1,
                             !.uploadQueue = Append(@, [file |-> app.files + 1, progress |-> 0,
                                                        status |-> "pending"])])
    /\ UNCHANGED <<workerVars, lock>>

\* this.uploadQueue.splice(index, 1)
Splice(queue, index) ==
    SubSeq(queue, 1, index - 1) \o SubSeq(queue, index + 1, Len(queue))

\* removeFromQueue(index): the user clicks the remove button of an item of
\* the rendered list; the button of an 'uploading' item is disabled.
RemoveFromQueue ==
    /\ app.loaded
    /\ app.queueList
    /\ \E index \in DOMAIN app.uploadQueue :
          /\ app.uploadQueue[index].status # "uploading"
          /\ app' = UpdateUploadQueueUI(
                       [app EXCEPT !.uploadQueue = Splice(@, index),
                                   !.removed = @ \cup {app.uploadQueue[index].file}])
    /\ UNCHANGED <<workerVars, lock>>

\* The end of the loop that leaves isUploading set.
AfterUploadLoop_StillUploading(a) ==
    LET hasSuccess == \E k \in DOMAIN a.uploadQueue : a.uploadQueue[k].status = "completed"
    IN  UpdateUploadQueueUI(
            [a EXCEPT !.pc = "idle", !.i = 0, !.item = 0,
                      !.loading = IF hasSuccess THEN @ + 1 ELSE @])

\* The end of processUploadQueue's loop: isUploading is reset; with a
\* completed item in the queue the call goes on to await loadGallery().
AfterUploadLoop(a) ==
    LET hasSuccess == \E k \in DOMAIN a.uploadQueue : a.uploadQueue[k].status = "completed"
    IN  UpdateUploadQueueUI(
            [a EXCEPT !.isUploading = FALSE, !.pc = "idle", !.i = 0, !.item = 0,
                      !.loading = IF hasSuccess THEN @ + 1 ELSE @])

\* for (let i = ...; i < this.uploadQueue.length; i++): from index i the
\* completed items are skipped; the first other item becomes 'uploading'
\* and the call is suspended at await this.uploadFile(...).
RECURSIVE UploadLoopFrom(_, _)
UploadLoopFrom(a, i) ==
    IF i > Len(a.uploadQueue) THEN AfterUploadLoop(a)
    ELSE IF a.uploadQueue[i].status = "completed" THEN UploadLoopFrom(a, i + 1)
    ELSE UpdateUploadQueueUI(
             [a EXCEPT !.uploadQueue[i].status = "uploading", !.pc = "upload", !.i = i,
                       !.item = a.uploadQueue[i].file,
                       !.tried = @ \cup {a.uploadQueue[i].file}])

\* The files of the items of a queue that are not 'completed'.
NotCompleted(queue) ==
    {queue[k].file : k \in {j \in DOMAIN queue : queue[j].status # "completed"}}

\* processUploadQueue(), up to its first await.
ProcessUploadQueue(a) ==
    LET b == [a EXCEPT !.processCalls = @ + 1, !.ignored = @ \/ a.isUploading]
    IN  IF a.isUploading \/ Len(a.uploadQueue) = 0 THEN b
        ELSE UploadLoopFrom([b EXCEPT !.isUploading = TRUE, !.tried = {},
                                      !.start = NotCompleted(a.uploadQueue)], 1)

\* The upload button is clicked; a disabled button takes no click.
UploadClick ==
    /\ app.loaded
    /\ ~app.btnDisabled
    /\ app.processCalls < MaxProcess
    /\ app' = ProcessUploadQueue(app)
    /\ UNCHANGED <<workerVars, lock>>

\* await this.uploadFile(...) settles: the item the loop holds becomes
\* 'completed' with progress 100, or 'failed'; the loop goes on.
UploadSettles ==
    /\ app.pc = "upload"
    /\ \E ok \in BOOLEAN :
          LET settled(it) == IF it.file # app.item THEN it
                             ELSE IF ok THEN [it EXCEPT !.status = "completed", !.progress = 100]
                             ELSE [it EXCEPT !.status = "failed"]
              a == [app EXCEPT !.uploadQueue = [k \in DOMAIN @ |-> settled(@[k])]]
          IN  app' = UploadLoopFrom(a, app.i + 1)
    /\ UNCHANGED <<workerVars, lock>>

\* await this.loadGallery() settles: setTimeout(..., 2000) is called.
LoadGallerySettles ==
    /\ app.loading > 0
    /\ app' = [app EXCEPT !.loading = @ - 1, !.timers = @ + 1]
    /\ UNCHANGED <<workerVars, lock>>

\* The timeout callback: the completed items leave the queue.
ClearCompleted ==
    /\ app.timers > 0
    /\ app' = UpdateUploadQueueUI(
                 [app EXCEPT !.timers = @ - 1,
                             !.uploadQueue = SelectSeq(@, LAMBDA it : it.status # "completed")])
    /\ UNCHANGED <<workerVars, lock>>

\* checkPendingUploads(): if (window.gallery && window.gallery.uploadQueue
\* && window.gallery.uploadQueue.length > 0) window.gallery.processUploadQueue()
CheckPendingUploads(a) ==
    IF a.windowGallery = "GalleryManager" /\ Len(a.uploadQueue) > 0
    THEN ProcessUploadQueue(a)
    ELSE a

\* The connection is lost: the `offline` listener shows a notification.
OfflineEvent ==
    /\ app.online
    /\ app' = [app EXCEPT !.online = FALSE]
    /\ UNCHANGED <<workerVars, lock>>

\* The connection is back: the `online` listener of an open page calls
\* checkPendingUploads().
OnlineEvent ==
    /\ ~app.online
    /\ LET a == [app EXCEPT !.online = TRUE]
       IN  app' = IF app.loaded THEN CheckPendingUploads(a) ELSE a
    /\ UNCHANGED <<workerVars, lock>>

Page ==
    \/ PageLoad
    \/ PageClose
    \/ ColorSchemeChange
    \/ ToggleTheme
    \/ HandleFileSelection
    \/ RemoveFromQueue
    \/ UploadClick
    \/ UploadSettles
    \/ LoadGallerySettles
    \/ ClearCompleted
    \/ OfflineEvent
    \/ OnlineEvent

\* No page is open; the browser holds what earlier visits stored: no theme
\* on a first visit, else the theme last applied.
InitPage ==
    /\ lifecycle = "activated"
    /\ install = [addAll |-> "cached", offline |-> "cached"]
    /\ activate = [pc |-> "claimed", cachesToDelete |-> {}, before |-> <<>>]
    /\ now = Day0
    /\ caches = InstalledCache(0)
    /\ tasks = {} /\ puts = {} /\ refreshes = {} /\ rejections = FALSE
    /\ janitor = JanitorIdle
    /\ bridge = BridgeIdle
    /\ clears = {} /\ infos = {}
    /\ sending = <<>> /\ outbox = <<>> /\ clients = {}
    /\ pendingUploads = <<>> /\ sync = SyncIdle
    /\ overlap = OverlapIdle /\ settings = SettingsIdle /\ notif = NotifIdle({})
    /\ lock = LockClosed
    /\ \E systemDark \in BOOLEAN, stored \in {Null, "dark", "light"}, chosen \in BOOLEAN :
          /\ chosen => stored # Null
          /\ app = [AppClosed EXCEPT !.systemDark = systemDark, !.stored = stored,
                                     !.chosen = chosen]

SpecPage == InitPage /\ [][Page]_vars

\* The upload queue of the gallery page.
Gallery ==
    \/ PageLoad
    \/ HandleFileSelection
    \/ RemoveFromQueue
    \/ UploadClick
    \/ UploadSettles
    \/ LoadGallerySettles
    \/ ClearCompleted

\* A first visit, the system in dark mode.
InitGallery ==
    /\ InitPage
    /\ app = AppClosed

SpecGallery == InitGallery /\ [][Gallery]_vars

\* ---------------------------------------------------------------- lock screen
\* The page at '/': a PinLock built on DOMContentLoaded.  A step of the page
\* changes `lock` only.
pageVars == <<workerVars, app>>

maxLength == 6
MinLength == 4
WarnAt == 5
CountdownFrom == 30
\* The interval of a warning ticks every second; a step of the model is ten
\* ticks of one interval.
TicksPerStep == 10

\* The keys a keydown event brings: a digit, the two keys the listener names
\* and a key it ignores.
Digits == {"7"}
Keys == Digits \cup {"Backspace", "Enter", "a"}

AddDigit_NoLimit(l, digit) ==
    LET pin == Append(l.pin, digit)
    IN  [l EXCEPT !.pin = pin,
                  !.autoSubmit = IF Len(pin) = maxLength THEN @ + 1 ELSE @]

\* addDigit: a full pin takes no digit; the digit that fills the pin arms
\* the 300 ms auto-submit.
AddDigit(l, digit) ==
    IF Len(l.pin) >= maxLength THEN l
    ELSE LET pin == Append(l.pin, digit)
         IN  [l EXCEPT !.pin = pin,
                       !.autoSubmit = IF Len(pin) = maxLength THEN @ + 1 ELSE @]

ClearPin(l) == IF Len(l.pin) = 0 THEN l ELSE [l EXCEPT !.pin = <<>>]

\* Whether a submitPin call goes past its guard.
Sends(l) == ~l.isSubmitting /\ Len(l.pin) >= MinLength

SubmitPin_Reentrant(l) ==
    IF Len(l.pin) < MinLength THEN l
    ELSE [l EXCEPT !.isSubmitting = TRUE, !.keypadDisabled = TRUE,
                   !.pc = "fetch", !.inflight = @ + 1, !.sent = l.pin,
                   !.submits = @ + 1]

\* submitPin up to its first await: the keypad is disabled and the request
\* leaves with the pin of that moment.
SubmitPin(l) ==
    IF l.isSubmitting THEN [l EXCEPT !.dropped = @ \cup {"submit"}]
    ELSE IF ~Sends(l) THEN l
    ELSE [l EXCEPT !.isSubmitting = TRUE, !.keypadDisabled = TRUE,
                   !.pc = "fetch", !.inflight = @ + 1, !.sent = l.pin,
                   !.submits = @ + 1]

\* showSecurityWarning: one more countdown, whatever is on display already.
ShowSecurityWarning(l) == [l EXCEPT !.warnings = Append(@, CountdownFrom)]

LogFailedAttempt(l) ==
    LET attempts == l.failedAttempts + 1
        logged == [l EXCEPT !.failedAttempts = attempts]
    IN  IF attempts >= WarnAt THEN ShowSecurityWarning(logged) ELSE logged

\* handleFailedAttempt: arms the 1000 ms clear, then logs the attempt.
HandleFailedAttempt(l) == LogFailedAttempt([l EXCEPT !.clearTimers = @ + 1])

SubmitFinally_KeepsPin(l) ==
    [l EXCEPT !.isSubmitting = FALSE, !.keypadDisabled = FALSE, !.pc = "idle"]

\* The finally block of submitPin.
SubmitFinally(l) ==
    [ClearPin(l) EXCEPT !.isSubmitting = FALSE, !.keypadDisabled = FALSE, !.pc = "idle"]

LockOpen == lock.location = "/"

\* A click on a numeric keypad button; a disabled button takes no click.
KeypadClick ==
    /\ LockOpen
    /\ ~lock.keypadDisabled
    /\ \E key \in Digits :
          /\ Len(lock.pin) = maxLength - 1 => lock.autoSubmit < MaxTimers
          /\ lock' = IF lock.isSubmitting THEN lock ELSE AddDigit(lock, key)
    /\ UNCHANGED pageVars

ClearClick ==
    /\ LockOpen
    /\ lock' = ClearPin(lock)
    /\ UNCHANGED pageVars

SubmitClick ==
    /\ LockOpen
    /\ Sends(lock) => lock.submits < MaxSubmits
    /\ lock' = SubmitPin(lock)
    /\ UNCHANGED pageVars

\* The keydown listener.
KeyDown ==
    /\ LockOpen
    /\ \E key \in Keys :
          /\ (key \in Digits /\ Len(lock.pin) = maxLength - 1) => lock.autoSubmit < MaxTimers
          /\ (key = "Enter" /\ Sends(lock)) => lock.submits < MaxSubmits
          /\ lock' = IF lock.isSubmitting
                     THEN IF key \in Digits
                          THEN [lock EXCEPT !.dropped = @ \cup {"digit"}]
                          ELSE lock
                     ELSE IF key \in Digits THEN AddDigit(lock, key)
                     ELSE IF key = "Backspace" THEN ClearPin(lock)
                     ELSE IF key = "Enter" THEN SubmitPin(lock)
                     ELSE lock
    /\ UNCHANGED pageVars

\* The 300 ms timeout of addDigit fires.
AutoSubmitFires ==
    /\ LockOpen
    /\ lock.autoSubmit > 0
    /\ Sends(lock) => lock.submits < MaxSubmits
    /\ lock' = SubmitPin([lock EXCEPT
                   !.autoSubmit = @ - 1,
                   !.dropped = IF Len(lock.pin) < MinLength THEN @ \cup {"timer"} ELSE @])
    /\ UNCHANGED pageVars

\* fetch('/pin/verify') settles: with a response, or rejected.
VerifySettles ==
    /\ LockOpen
    /\ lock.pc = "fetch"
    /\ \E ok \in BOOLEAN :
          LET answered == [lock EXCEPT !.inflight = @ - 1]
          IN  lock' = IF ok THEN [answered EXCEPT !.pc = "json"]
                      ELSE [SubmitFinally(HandleFailedAttempt(answered))
                               EXCEPT !.last = "network error"]
    /\ UNCHANGED pageVars

\* response.json() settles: a body that says success (the vault is real or
\* fake), one that does not, or one that does not parse.
JsonSettles ==
    /\ LockOpen
    /\ lock.pc = "json"
    /\ \E outcome \in {"real", "fake", "failure", "parse error"} :
          lock' = IF outcome \in {"real", "fake"}
                  THEN [SubmitFinally(lock) EXCEPT
                           !.location = IF outcome = "real" THEN "/unlock/animation"
                                        ELSE "/dashboard",
                           !.unlocked = TRUE,
                           !.last = "success"]
                  ELSE [SubmitFinally(HandleFailedAttempt(lock)) EXCEPT !.last = outcome]
    /\ UNCHANGED pageVars

\* The 1000 ms timeout of handleFailedAttempt fires.
DelayedClearFires ==
    /\ LockOpen
    /\ lock.clearTimers > 0
    /\ lock' = ClearPin([lock EXCEPT !.clearTimers = @ - 1])
    /\ UNCHANGED pageVars

Without(seq, k) == [j \in 1..(Len(seq) - 1) |-> IF j < k THEN seq[j] ELSE seq[j + 1]]

\* The interval of a security warning ticks: the warning goes and the stored
\* count is reset when its countdown reaches 0.
CountdownTick ==
    /\ LockOpen
    /\ \E k \in 1..Len(lock.warnings) :
          LET countdown == lock.warnings[k] - TicksPerStep
          IN  lock' = IF countdown <= 0
                      THEN [lock EXCEPT !.warnings = Without(@, k), !.failedAttempts = 0]
                      ELSE [lock EXCEPT !.warnings[k] = countdown]
    /\ UNCHANGED pageVars

Pin ==
    \/ KeypadClick
    \/ ClearClick
    \/ SubmitClick
    \/ KeyDown
    \/ AutoSubmitFires
    \/ VerifySettles
    \/ JsonSettles
    \/ DelayedClearFires
    \/ CountdownTick

\* The lock screen has just loaded; the browser holds the failed attempts
\* earlier visits counted.
InitPin ==
    /\ lifecycle = "activated"
    /\ install = [addAll |-> "cached", offline |-> "cached"]
    /\ activate = [pc |-> "claimed", cachesToDelete |-> {}, before |-> <<>>]
    /\ now = Day0
    /\ caches = InstalledCache(0)
    /\ tasks = {} /\ puts = {} /\ refreshes = {} /\ rejections = FALSE
    /\ janitor = JanitorIdle
    /\ bridge = BridgeIdle
    /\ clears = {} /\ infos = {}
    /\ sending = <<>> /\ outbox = <<>> /\ clients = {}
    /\ pendingUploads = <<>> /\ sync = SyncIdle
    /\ overlap = OverlapIdle /\ settings = SettingsIdle /\ notif = NotifIdle({})
    /\ app = AppClosed
    /\ \E attempts \in {0, WarnAt - 1} :
          lock = [LockClosed EXCEPT !.location = "/", !.failedAttempts = attempts]

SpecPin == InitPin /\ [][Pin]_vars

\* ------------------------------------------------------- lock on minimize
\* Every document of the app builds a VantaVaultApp, the lock screen too.
\* A navigation replaces the document: its PinLock and its timers go, the
\* storage stays.
Navigate(l, path) ==
    [l EXCEPT !.location = path, !.navTimer = FALSE,
              !.pin = <<>>, !.isSubmitting = FALSE, !.keypadDisabled = FALSE,
              !.autoSubmit = 0, !.clearTimers = 0, !.pc = "idle", !.inflight = 0,
              !.warnings = <<>>]

\* onAppHidden: stores the path and arms the 100 ms timeout that goes to the
\* lock screen.
OnAppHidden(l) ==
    IF l.autoLock /\ l.lockOnMinimize /\ l.location # "/"
    THEN [l EXCEPT !.returnPath = l.location, !.navTimer = TRUE]
    ELSE l

\* onAppVisible: whether it leaves for the stored path.
Returns(l) == l.returnPath # Null /\ l.returnPath # "/"

\* visibilitychange, the document now hidden.
VisibilityHidden ==
    /\ lock.location # "closed"
    /\ lock.visible
    /\ lock.hides < MaxHides
    /\ lock' = [OnAppHidden(lock) EXCEPT !.visible = FALSE, !.hides = @ + 1]
    /\ UNCHANGED pageVars

\* The 100 ms timeout of onAppHidden fires: the lock screen loads and the
\* session is locked.
LockTimerFires ==
    /\ lock.navTimer
    /\ lock' = [Navigate(lock, "/") EXCEPT !.unlocked = FALSE]
    /\ UNCHANGED pageVars

\* visibilitychange, the document visible again.  When onAppVisible sets
\* location.href the old document may or may not live long enough for its
\* pending timeout to fire.
VisibilityVisible ==
    /\ lock.location # "closed"
    /\ ~lock.visible
    /\ \E outlives \in BOOLEAN :
          lock' = IF Returns(lock)
                  THEN [Navigate(lock, lock.returnPath) EXCEPT
                           !.visible = TRUE, !.returnPath = Null,
                           !.navTimer = outlives /\ lock.navTimer]
                  ELSE [lock EXCEPT !.visible = TRUE]
    /\ UNCHANGED pageVars

Minimize ==
    \/ VisibilityHidden
    \/ LockTimerFires
    \/ VisibilityVisible
    \/ KeypadClick
    \/ SubmitClick
    \/ VerifySettles
    \/ JsonSettles

\* An unlocked session on the gallery page; the browser holds the two
\* auto-lock settings.
InitMinimize ==
    /\ lifecycle = "activated"
    /\ install = [addAll |-> "cached", offline |-> "cached"]
    /\ activate = [pc |-> "claimed", cachesToDelete |-> {}, before |-> <<>>]
    /\ now = Day0
    /\ caches = InstalledCache(0)
    /\ tasks = {} /\ puts = {} /\ refreshes = {} /\ rejections = FALSE
    /\ janitor = JanitorIdle
    /\ bridge = BridgeIdle
    /\ clears = {} /\ infos = {}
    /\ sending = <<>> /\ outbox = <<>> /\ clients = {}
    /\ pendingUploads = <<>> /\ sync = SyncIdle
    /\ overlap = OverlapIdle /\ settings = SettingsIdle /\ notif = NotifIdle({})
    /\ app = AppClosed
    /\ \E autoLock \in BOOLEAN, lockOnMinimize \in BOOLEAN :
          lock = [LockClosed EXCEPT !.location = "/gallery", !.unlocked = TRUE,
                                    !.autoLock = autoLock,
                                    !.lockOnMinimize = lockOnMinimize]

SpecMinimize == InitMinimize /\ [][Minimize]_vars

\* ------------------------------------------------------------------ claims
\* A request the fetch listener does not skip: GET and not chrome-extension.
Intercepted(req) == req.method = "GET" /\ req.scheme # "chrome-extension"

IsMediaPath(path) == StartsWith(path, <<"/", "api", "/", "media", "/">>)
IsApiPath(path)   == StartsWith(path, <<"/", "api", "/">>)

\* C1: every intercepted request is given to the handler of the first class
\* it matches in the order /api/media/ (media), /api/ (network-only),
\* navigation (network-first), anything else (cache-first).
C1_FirstMatchOrder ==
    \A t \in tasks :
        Intercepted(t.req) =>
            t.handler =
                IF IsMediaPath(t.req.path) THEN "handleMediaRequest"
                ELSE IF IsApiPath(t.req.path) THEN "handleApiRequest"
                ELSE IF t.req.mode = "navigate" THEN "handlePageRequest"
                ELSE "handleStaticRequest"

\* C2: a GET under /api/media/ for which a cached response exists is
\* answered with that cached response and the network is not called.
C2_MediaHitNoNetwork ==
    \A t \in tasks :
        (Intercepted(t.req) /\ IsMediaPath(t.req.path) /\ t.cached # Undefined) =>
            /\ t.netCalls = 0
            /\ t.pc = "responded" => t.resp = t.cached

\* C3: no step of the worker writes a response under a /api/ URL that is
\* not a /api/media/ URL into any cache partition.
C3_ApiNeverCached ==
    [][\A i \in DOMAIN caches' : \A u \in DOMAIN caches'[i].entries :
          (IsApiPath(u) /\ ~IsMediaPath(u)) =>
              /\ u \in DOMAIN EntriesOf(caches, caches'[i].name)
              /\ EntriesOf(caches, caches'[i].name)[u] = caches'[i].entries[u]]_vars

\* C3 witness: a network-only request was answered 200 by the server.
C3_Witness ==
    \E t \in tasks :
        /\ t.handler = "handleApiRequest" /\ ~IsMediaPath(t.req.path)
        /\ t.pc = "responded" /\ t.via = "network" /\ t.resp.status = 200

\* C4: every response held by any cache partition has status 200.
C4_Only200Cached ==
    \A i \in DOMAIN caches : \A u \in DOMAIN caches[i].entries :
        caches[i].entries[u].status = 200

\* C5: a navigation whose fetch failed and for which nothing was cached is
\* answered with the offline page: the body is OFFLINE_HTML.
C5_OfflineBody ==
    \A t \in tasks :
        (t.handler = "handlePageRequest" /\ t.pc = "responded" /\ t.via = "offline") =>
            t.resp.body = OFFLINE_HTML

\* C6: when the cache-first strategy answers with a 200 response from the
\* network, that response is in the cache at that moment.
C6_CachedWhenResolved ==
    \A t \in tasks :
        (t.handler = "handleStaticRequest" /\ t.pc = "responded"
            /\ t.via = "network" /\ t.resp.status = 200) =>
            CachesMatch(caches, t.req.path) = t.resp

\* C7: when the activate handler completes, no partition outside the
\* allow-list exists, and every allow-list partition that existed when the
\* handler started exists with the entries it had.
C7_ActivateKeepsAllowList ==
    [][(lifecycle = "activating" /\ lifecycle' = "activated") =>
          /\ \A n \in Range(CacheNamesOf(caches')) : n \in Range(currentCaches)
          /\ \A n \in Range(currentCaches) :
                HasCache(activate.before, n) =>
                    /\ HasCache(caches', n)
                    /\ EntriesOf(caches', n) = EntriesOf(activate.before, n)]_vars

\* C7 witness: activation completed with an old partition deleted and a
\* populated allow-list partition in place.
C7_Witness ==
    /\ lifecycle = "activated"
    /\ HasCache(activate.before, OLD_CACHE) /\ ~HasCache(caches, OLD_CACHE)
    /\ EntriesOf(activate.before, MEDIA_CACHE) # NoEntries
    /\ HasCache(caches, MEDIA_CACHE)

\* C8: when a janitor pass is over, an entry the dynamic partition held at
\* its start is gone if and only if it has a date header naming a day more
\* than 7 days before the pass read the clock; likewise with 30 days for the
\* media partition; what is retained is unchanged.
C8_JanitorDeletesIffStale ==
    janitor.pc = "done" =>
        \A p \in {DYNAMIC_CACHE, MEDIA_CACHE} :
            \A u \in DOMAIN EntriesOf(janitor.before, p) :
                LET r == EntriesOf(janitor.before, p)[u]
                    limit == IF p = DYNAMIC_CACHE THEN 7 ELSE 30
                    stale == /\ "date" \in DOMAIN r.headers
                             /\ r.headers["date"] # NaN
                             /\ janitor.clock[p] - r.headers["date"] > limit
                IN  /\ (u \notin DOMAIN EntriesOf(caches, p)) <=> stale
                    /\ u \in DOMAIN EntriesOf(caches, p) => EntriesOf(caches, p)[u] = r

\* C8 witness: a pass is over that deleted a page 8 days old, kept a dated
\* font entry, and met a media entry without a date header.
C8_Witness ==
    /\ janitor.pc = "done"
    /\ GalleryUrl \in DOMAIN EntriesOf(janitor.before, DYNAMIC_CACHE)
    /\ "date" \in DOMAIN EntriesOf(janitor.before, DYNAMIC_CACHE)[GalleryUrl].headers
    /\ janitor.clock[DYNAMIC_CACHE]
          - EntriesOf(janitor.before, DYNAMIC_CACHE)[GalleryUrl].headers["date"] = 8
    /\ GalleryUrl \notin DOMAIN EntriesOf(caches, DYNAMIC_CACHE)
    /\ FontUrl \in DOMAIN EntriesOf(caches, DYNAMIC_CACHE)
    /\ "date" \in DOMAIN EntriesOf(caches, DYNAMIC_CACHE)[FontUrl].headers
    /\ MediaUrl \in DOMAIN EntriesOf(caches, MEDIA_CACHE)
    /\ "date" \notin DOMAIN EntriesOf(caches, MEDIA_CACHE)[MediaUrl].headers

\* C9: a CACHE_INFO reply to a GET_CACHE_INFO message that was sent after a
\* CLEAR_CACHE message reports zero entries for every partition it lists.
C9_ZeroAfterClear ==
    \A m \in Range(sending) \cup {d.msg : d \in DOMAIN outbox} :
        (m.type = "CACHE_INFO" /\ m.afterClear) =>
            \A n \in DOMAIN m.data : m.data[n].count = 0

\* The ids of the uploads in the pending-upload queue.
QueuedIds == {pendingUploads[i].id : i \in DOMAIN pendingUploads}

RECURSIVE Copies(_, _)
Copies(box, deliveries) ==
    IF deliveries = {} THEN 0
    ELSE LET d == CHOOSE x \in deliveries : TRUE
         IN  box[d] + Copies(box, deliveries \ {d})

PostsAbout(type, id) ==
    Copies(outbox, {d \in DOMAIN outbox : d.msg.type = type /\ d.msg.data.id = id})

C12_InstallFailsOnAssetFailure ==
    install.addAll = "caught" =>
        lifecycle \notin {"installed", "activating", "activated"}

\* C13: every fetch event a handler has answered was answered with a
\* Response, whether or not the network failed, and no promise a handler
\* started, the un-awaited background refresh included, was rejected with no
\* handler attached.
C13_NetworkFailureRecovered ==
    /\ \A t \in tasks : t.pc = "responded" => t.resp # Undefined
    /\ ~rejections

\* C14: for a request that is not GET, or that a browser extension makes,
\* the listener returns without respondWith: no handler runs, the network
\* is not called on the event's behalf, and the steps that begin and end the
\* event leave the cache store and the pending cache writes as they were.
C14_SkippedUntouched ==
    [][\A t \in tasks \cup tasks' :
          ~Intercepted(t.req) =>
              /\ t.handler = "none" /\ t.pc = "ignored"
              /\ t.resp = Undefined /\ t.netCalls = 0
              /\ (t \notin tasks \/ t \notin tasks') =>
                     UNCHANGED <<caches, puts, refreshes>>]_vars

\* C14 witness: a POST to a URL for which the media cache holds a response
\* was dispatched and passed through.
C14_Witness ==
    \E t \in tasks :
        /\ t.req.method = "POST" /\ t.pc = "ignored"
        /\ t.cached # Undefined

\* C15: a request handleApiRequest has answered after its fetch failed got
\* status 503, the header Cache-Control: no-store and a JSON body with the
\* fields error, offline = true and timestamp; one whose fetch succeeded
\* got the server's response as the server sent it.
C15_ApiOfflineAnswer ==
    \A t \in tasks :
        (t.handler = "handleApiRequest" /\ t.pc = "responded") =>
            /\ t.netCalls = 1
            /\ IF t.via = "network"
               THEN \E st \in NetStatuses :
                        t.resp = NetworkResponse(t.req.path, st, t.resp.headers["date"])
               ELSE /\ t.resp.status = 503
                    /\ "Cache-Control" \in DOMAIN t.resp.headers
                    /\ t.resp.headers["Cache-Control"] = "no-store"
                    /\ {"error", "offline", "timestamp"} \subseteq DOMAIN t.resp.body
                    /\ t.resp.body.offline = TRUE

\* C15 witness: a request for /api/settings was answered after its fetch failed.
C15_Witness ==
    \E t \in tasks :
        /\ t.handler = "handleApiRequest" /\ t.req.path = SettingsUrl
        /\ t.pc = "responded" /\ t.via = "synthesized"

\* C16: a static asset found in cache is answered from the cache with no
\* network call, and when a fetchAndCache for it has completed with a 200
\* response (its copy is in the dynamic partition), the answer is that
\* refreshed response, also for an asset pre-cached at install.
C16_RefreshedServedNext ==
    [][\A t \in tasks' \ tasks :
          (t.handler = "handleStaticRequest" /\ t.pc = "responded" /\ t.via = "cache") =>
              /\ t.netCalls = 0
              /\ LET refreshed == EntriesOf(caches, DYNAMIC_CACHE)
                 IN  t.req.path \in DOMAIN refreshed => t.resp = refreshed[t.req.path]]_vars

\* C17: handlePageRequest answers a navigation whose fetch succeeded with
\* the server's response and starts the write of a clone into the dynamic
\* partition under the request's URL, which lands there; it answers one
\* whose fetch failed with what caches.match(request) holds, and goes to
\* the page cached under /offline only when that match found nothing.
C17_NetworkFirst ==
    [][/\ \A t \in tasks' \ tasks :
             t.handler = "handlePageRequest" =>
                 CASE t.pc = "responded" /\ t.via = "network" ->
                          /\ t.netCalls = 1
                          /\ \E st \in NetStatuses :
                                t.resp = NetworkResponse(t.req.path, st, t.resp.headers["date"])
                          /\ PendingPut(DYNAMIC_CACHE, t.req.path, t.resp) \in puts'
                   [] t.pc = "responded" /\ t.via = "cache" ->
                          /\ t.netCalls = 1
                          /\ t.resp # Undefined
                          /\ t.resp = CachesMatch(caches, t.req.path)
                   [] t.pc = "page_offline" ->
                          /\ t.netCalls = 1
                          /\ CachesMatch(caches, t.req.path) = Undefined
                   [] t.pc = "responded" /\ t.via = "offline" ->
                          /\ t.resp # Undefined
                          /\ t.resp = CachesMatch(caches, OfflineUrl)
                   [] OTHER -> t.pc = "page_fetch" \/ t.pc = "page_match"
       /\ \A p \in puts \ puts' :
             /\ p.url \in DOMAIN EntriesOf(caches', p.cache)
             /\ EntriesOf(caches', p.cache)[p.url] = p.resp]_vars

\* C17 witness: a navigation to /gallery whose fetch failed was answered
\* with the copy an earlier navigation left in the dynamic partition.
C17_Witness ==
    \E t \in tasks :
        /\ t.handler = "handlePageRequest" /\ t.req.path = GalleryUrl
        /\ t.pc = "responded" /\ t.via = "cache" /\ t.netCalls = 1
        /\ t.resp = EntriesOf(caches, DYNAMIC_CACHE)[GalleryUrl]

\* C18: a GET under /api/media/ for which nothing was cached and whose
\* fetch failed is answered with the placeholder image
\* /static/icons/icon-192.svg when its destination is 'image', and with the
\* 503 plain-text response otherwise.
C18_MediaFallback ==
    \A t \in tasks :
        (/\ Intercepted(t.req) /\ IsMediaPath(t.req.path)
         /\ t.cached = Undefined
         /\ t.pc = "responded" /\ t.via # "network") =>
            IF t.req.destination = "image"
            THEN t.resp.body = [src |-> "server", url |-> Icon192Url]
            ELSE t.resp = MediaOfflineResponse

C20_OnlyStaleDeleted ==
    [][\A p \in {DYNAMIC_CACHE, MEDIA_CACHE} :
          \A u \in (DOMAIN EntriesOf(caches, p)) \ (DOMAIN EntriesOf(caches', p)) :
              LET r == EntriesOf(caches, p)[u]
                  limit == IF p = DYNAMIC_CACHE THEN 7 ELSE 30
              IN  /\ "date" \in DOMAIN r.headers
                  /\ r.headers["date"] # NaN
                  /\ now - r.headers["date"] > limit]_vars

\* C21: when a cache operation of a janitor pass throws, the pass ends there
\* with its promise resolved (no rejection reaches the event), the step that
\* catches the error and every later step leave the caches as they were (so
\* what the pass had deleted stays deleted), and the pass does nothing more:
\* nothing is retried.
C21_FailureSwallowed ==
    [][janitor'.thrown =>
          /\ janitor'.pc = "caught"
          /\ ~rejections'
          /\ caches' = caches
          /\ janitor.thrown => janitor' = janitor]_vars

\* C21 witness: a pass that had deleted the page /gallery from the dynamic
\* partition threw on a later cache operation; the page is still gone.
C21_Witness ==
    /\ janitor.thrown
    /\ janitor.pc = "caught"
    /\ GalleryUrl \in DOMAIN EntriesOf(janitor.before, DYNAMIC_CACHE)
    /\ GalleryUrl \notin DOMAIN EntriesOf(caches, DYNAMIC_CACHE)

\* The names of the caches of a cache storage.
CacheNames(store) == {store[i].name : i \in DOMAIN store}

\* C22: no step of a janitor pass adds an entry to any partition or changes
\* the response of one, and the partitions other than the dynamic and the
\* media one (the static and the legacy partition among them) keep exactly
\* the entries they had.
C22_OnlyDynamicAndMedia ==
    [][/\ \A p \in CacheNames(caches') :
            \A u \in DOMAIN EntriesOf(caches', p) :
                /\ u \in DOMAIN EntriesOf(caches, p)
                /\ EntriesOf(caches', p)[u] = EntriesOf(caches, p)[u]
       /\ \A p \in CacheNames(caches) \ {DYNAMIC_CACHE, MEDIA_CACHE} :
            /\ p \in CacheNames(caches')
            /\ EntriesOf(caches', p) = EntriesOf(caches, p)]_vars

\* C22 witness: a pass is over that deleted the page /gallery from the
\* dynamic partition; the static and the legacy partition hold entries as
\* old as the one deleted and older.
C22_Witness ==
    /\ janitor.pc = "done"
    /\ GalleryUrl \in DOMAIN EntriesOf(janitor.before, DYNAMIC_CACHE)
    /\ GalleryUrl \notin DOMAIN EntriesOf(caches, DYNAMIC_CACHE)
    /\ GalleryUrl \in DOMAIN EntriesOf(caches, CACHE_NAME)
    /\ EntriesOf(caches, CACHE_NAME) = EntriesOf(janitor.before, CACHE_NAME)
    /\ EntriesOf(caches, STATIC_CACHE) = EntriesOf(janitor.before, STATIC_CACHE)
    /\ EntriesOf(caches, STATIC_CACHE) # NoEntries

\* C27: once install has cached the offline page, caches.match('/offline')
\* finds an entry in every state, whatever control messages were handled.
C27_OfflineAlwaysCached ==
    (lifecycle = "activated" /\ install.offline = "cached") =>
        CachesMatch(caches, OfflineUrl) # Undefined

\* C25: once a sync event of the tag the foreground registered has been
\* delivered, syncPendingUploads has been called.
C25_RegisteredTagReplays ==
    sync.fired => sync.passes > 0

\* C26: once the message a pull-to-refresh posts has been handled,
\* checkForUpdates has run.
C26_PullToRefreshChecksUpdates ==
    bridge.pulled => bridge.update

\* The messages sendMessageToClient was called with, posted yet or not.
MessagesSent == Range(sending) \cup {d.msg : d \in DOMAIN outbox}

C23_ClickFocusesOrOpens ==
    [][/\ notif'.closed # notif.closed =>
             /\ ~notif'.shown
             /\ notif'.action \notin {"open", ""} => notif'.pc = "idle"
       /\ (notif'.focused # notif.focused \/ notif'.opened # notif.opened) =>
             /\ notif.pc = "matchAll"
             /\ notif.action \in {"open", ""}
       /\ (notif.pc = "matchAll" /\ notif'.pc = "idle") =>
             IF notif.windows # {}
             THEN /\ notif'.opened = notif.opened
                  /\ \E w \in notif.windows : notif'.focused = Append(notif.focused, w)
             ELSE /\ notif'.focused = notif.focused
                  /\ notif'.opened = Append(notif.opened, <<"/">>)]_vars

\* C23 witness: two notifications were clicked; the first click focused an
\* existing window, the window was closed, and the second opened one on '/'.
C23_Witness ==
    /\ notif.closed = 2
    /\ notif.pc = "idle"
    /\ Len(notif.focused) = 1
    /\ notif.opened = << <<"/">> >>

\* C23 witness of the other case: a click on 'dismiss' closed the
\* notification with a window open, and nothing was focused or opened.
C23_WitnessDismiss ==
    /\ notif.closed = 1
    /\ notif.action = "dismiss"
    /\ ~notif.shown
    /\ notif.windows # {}
    /\ notif.focused = <<>> /\ notif.opened = <<>>

C28_OnlineResumesUploads ==
    [][(app.loaded /\ ~app.online /\ app'.online /\ Len(app.uploadQueue) > 0) =>
           app'.processCalls = app.processCalls + 1]_vars

\* C29: when the system colour scheme changes while a page is open and the
\* user has never chosen a theme, the theme of the app becomes the system's.
C29_ThemeFollowsSystem ==
    [][(app.loaded /\ ~app.chosen /\ app'.systemDark # app.systemDark) =>
           app'.theme = IF app'.systemDark THEN "dark" ELSE "light"]_vars

\* The indices of the items of the upload queue that are 'uploading'.
Uploading(a) == {k \in DOMAIN a.uploadQueue : a.uploadQueue[k].status = "uploading"}

\* C36: at most one item of the upload queue is 'uploading'; isUploading is
\* set exactly while a processUploadQueue call is in its loop, and is reset
\* when the loop has gone through the queue; a processUploadQueue call made
\* while isUploading is set changes nothing.
C36_OneUploadLoop ==
    [][/\ Cardinality(Uploading(app')) <= 1
       /\ app'.isUploading <=> app'.pc = "upload"
       /\ Uploading(app') # {} => app'.isUploading
       /\ (app.pc = "upload" /\ app'.pc = "upload" /\ app'.i # app.i) => app'.i > app.i
       /\ (app.isUploading /\ app'.processCalls # app.processCalls) =>
             /\ app'.uploadQueue = app.uploadQueue
             /\ app'.pc = app.pc /\ app'.i = app.i /\ app'.item = app.item
             /\ app'.tried = app.tried]_vars

\* C36 witness: a loop went through a queue of two items, one of which
\* failed and one of which completed, and a second call was made during
\* it; isUploading is reset.
C36_Witness ==
    /\ app.loaded
    /\ app.processCalls = 2
    /\ app.ignored
    /\ ~app.isUploading
    /\ app.tried = {1, 2}
    /\ \E k \in DOMAIN app.uploadQueue : app.uploadQueue[k].status = "failed"
    /\ \E k \in DOMAIN app.uploadQueue : app.uploadQueue[k].status = "completed"
    /\ app.start = {1, 2}

\* C37: when a processUploadQueue loop ends, every item in the queue is
\* 'completed' or was passed to uploadFile by that loop: none that the user
\* did not remove was passed over.
C37_EveryItemAttempted ==
    [][(app.isUploading /\ ~app'.isUploading) =>
          \A k \in DOMAIN app'.uploadQueue :
              \/ app'.uploadQueue[k].status = "completed"
              \/ app'.uploadQueue[k].file \in app'.tried]_vars

\* The status of the item of file f in a queue, "none" when it has no item.
StatusOf(queue, f) ==
    IF \E k \in DOMAIN queue : queue[k].file = f
    THEN queue[CHOOSE k \in DOMAIN queue : queue[k].file = f].status
    ELSE "none"

\* C38: a 'completed' item is never passed to uploadFile again; a 'failed'
\* item leaves the queue only when the user removes it; a failing upload
\* does not end the loop while items that are not 'completed' follow it;
\* and when a loop ends, every item that is 'failed' was passed to
\* uploadFile by that loop (so a failure of an earlier run was retried).
C38_CompletedOnceFailedRetried ==
    [][\A f \in 1..MaxFiles :
          /\ StatusOf(app.uploadQueue, f) = "completed" =>
                /\ StatusOf(app'.uploadQueue, f) \in {"completed", "none"}
                /\ f \in app'.tried => f \in app.tried
          /\ (StatusOf(app.uploadQueue, f) = "failed" /\ app'.loaded
                 /\ StatusOf(app'.uploadQueue, f) = "none") => f \in app'.removed
          /\ (app.pc = "upload" /\ app.item = f /\ StatusOf(app'.uploadQueue, f) = "failed"
                 /\ \E k \in DOMAIN app'.uploadQueue :
                        k > app.i /\ app'.uploadQueue[k].status # "completed") =>
                app'.pc = "upload"
          /\ (app.isUploading /\ ~app'.isUploading
                 /\ StatusOf(app'.uploadQueue, f) = "failed") => f \in app'.tried]_vars

\* C31: the pin never holds more than maxLength (6) characters, a /pin/verify
\* request carries the pin of the moment it is sent and that pin has 4 to 6
\* characters, and no step sends a request while the pin is shorter than 4:
\* not the auto-submit timeout either, when it fires after the pin was
\* cleared and partly retyped.
C31_PinLengthBounds ==
    [][/\ Len(lock.pin) <= maxLength
       /\ Len(lock'.pin) <= maxLength
       /\ lock'.submits # lock.submits =>
              /\ lock'.sent = lock.pin
              /\ Len(lock'.sent) \in MinLength..maxLength
       /\ Len(lock.pin) < MinLength => lock'.submits = lock.submits]_vars

\* The pin was filled, cleared and retyped up to two digits, and the timeout
\* armed by the sixth digit has fired and sent nothing.
C31_Witness ==
    /\ lock.location = "/"
    /\ "timer" \in lock.dropped
    /\ Len(lock.pin) = 2
    /\ lock.autoSubmit = 0
    /\ lock.submits = 0

\* C32: at most one /pin/verify request is in flight; while isSubmitting is
\* set no step sends a request and no step lengthens the pin, and
\* isSubmitting is set exactly while a submitPin call is suspended.
C32_OneVerifyInFlight ==
    [][/\ lock.inflight <= 1
       /\ lock'.inflight <= 1
       /\ lock.isSubmitting <=> lock.pc # "idle"
       /\ lock.isSubmitting =>
              /\ lock'.submits = lock.submits
              /\ Len(lock'.pin) <= Len(lock.pin)]_vars

\* A request is in flight; a submitPin call and a digit key arrived meanwhile
\* and were turned away.
C32_Witness ==
    /\ lock.inflight = 1
    /\ lock.isSubmitting
    /\ lock.submits = 1
    /\ {"submit", "digit"} \subseteq lock.dropped
    /\ Len(lock.pin) = maxLength

\* C33: the step that ends a submitPin call leaves isSubmitting false, the
\* pin empty and the keypad enabled, whatever the outcome; it adds exactly
\* one to the stored failedAttempts when the outcome is a failure (the
\* server said no, the request failed, the body did not parse) and leaves
\* the count alone on success.
C33_SubmitAlwaysCleansUp ==
    [][(lock.pc # "idle" /\ lock'.pc = "idle") =>
          /\ ~lock'.isSubmitting
          /\ lock'.pin = <<>>
          /\ ~lock'.keypadDisabled
          /\ lock'.last \in {"success", "failure", "network error", "parse error"}
          /\ lock'.failedAttempts =
                 IF lock'.last = "success" THEN lock.failedAttempts
                 ELSE lock.failedAttempts + 1]_vars

\* Two calls have ended, the second on a body that did not parse: two failed
\* attempts are stored and the keypad is back.
C33_Witness ==
    /\ lock.submits = 2
    /\ lock.last = "parse error"
    /\ lock.failedAttempts = 2
    /\ lock.pc = "idle"
    /\ ~lock.isSubmitting
    /\ ~lock.keypadDisabled
    /\ lock.pin = <<>>

\* C34: the 1000 ms timeout armed by handleFailedAttempt discards no digit:
\* the pin is the same after it fires as before.
C34_DelayedClearKeepsNewDigits ==
    [][lock'.clearTimers < lock.clearTimers => lock'.pin = lock.pin]_vars

\* The stored failedAttempts goes back to 0 only in the step in which a
\* countdown reaches 0.
ResetOnlyAtZero ==
    [][(lock.failedAttempts # 0 /\ lock'.failedAttempts = 0) =>
          Len(lock'.warnings) < Len(lock.warnings)]_vars

\* C35: while a security warning counts down no /pin/verify request is sent,
\* and the stored failedAttempts goes back to 0 only in the step in which a
\* countdown reaches 0.
C35_WaitEnforced ==
    [][/\ lock.warnings # <<>> => lock'.submits = lock.submits
       /\ (lock.failedAttempts # 0 /\ lock'.failedAttempts = 0) =>
              Len(lock'.warnings) < Len(lock.warnings)]_vars

\* C39: a document other than the lock screen that is hidden with auto-lock
\* and lock-on-minimize enabled stores its path as return_path and arms the
\* navigation to '/'; the stored return_path is consumed, and navigated to,
\* only when the vault has been unlocked since.
C39_ReturnOnlyAfterUnlock ==
    [][/\ (lock.visible /\ ~lock'.visible /\ lock.autoLock /\ lock.lockOnMinimize
              /\ lock.location # "/") =>
              (lock'.returnPath = lock.location /\ lock'.navTimer)
       /\ lock.navTimer /\ ~lock'.navTimer /\ lock'.returnPath = lock.returnPath =>
              lock'.location = "/"
       /\ (lock.returnPath # Null /\ lock'.returnPath = Null) => lock.unlocked]_vars

====
